---------------------------- MODULE Spec2Model ----------------------------
(***************************************************************************)
(* Model of the block-builder core of marketplace-builder-core:            *)
(*   - GlobalState (the registry of builder states), src/src/service.rs    *)
(*   - ProxyGlobalState (the request gateway), src/src/service.rs          *)
(*   - the event-driver handlers of src/src/service.rs                     *)
(*   - the per-anchor builder state, whose source (builder_state.rs) is    *)
(*     not part of src/ and is modelled from spec.md section 4.3           *)
(*   - the simulated consensus of finalization_test.rs                     *)
(***************************************************************************)
EXTENDS Integers, Sequences, FiniteSets, TLC

(***************************************************************************)
(* Bounds of the model.                                                    *)
(***************************************************************************)
\* highest view number consensus reaches
MaxView == 4
\* number of register calls in the registry specification
MaxRegs == 2
\* number of record_built calls in the registry specification
MaxBuilt == 1
\* number of submit_txns calls
MaxSubmits == 1
\* number of register and record_built calls before the client's call in the
\* gateway specification
MaxGwOps == 2
\* number of update_global_state calls in the specification of the caches
MaxRecords == 2
\* length of the transaction list of a submit_txns call in the specification
\* of the transaction bus
MaxTxns == 2
\* number of events the event driver takes from the event stream
MaxEvents == 3
\* a builder state whose anchor is more than StaleAfter views behind the view
\* of consensus is no longer scheduled to read the buses
StaleAfter == 1

(***************************************************************************)
(* Program constants.                                                      *)
(***************************************************************************)
ALLOW_EMPTY_BLOCK_PERIOD == 3
TEST_NUM_CONSENSUS_RETRIES == 4
\* capacity of the broadcast channels
TEST_CHANNEL_BUFFER_SIZE == 32

(***************************************************************************)
(* Values.                                                                 *)
(***************************************************************************)
\* Option::None of a view number
NoView == 0 - 1
\* BuildError "No builder state found": no sender is returned
NoBuilderState == 0 - 1
\* namespace_id: None
NoNamespace == "None"

\* transactions are identified by their commitment
Txs == {1, 2}

Views == 0 .. MaxView

Min(a, b) == IF a <= b THEN a ELSE b

SeqToSet(s) == {s[i] : i \in 1 .. Len(s)}

\* vid_commitment of a payload: a binding fingerprint (no collisions), not the
\* payload itself
VidCommit(payload) == <<"vid", payload>>
\* builder_commitment of a payload (its metadata is the transaction count)
BuilderCommit(payload) == <<"bc", payload>>

\* parent commitment of the bootstrap state: vid_commitment(&[], n)
GenesisVid == VidCommit(<<>>)
GenesisView == 0
BootstrapId == <<GenesisVid, GenesisView>>

\* parent commitments of the states registered in the registry specification
RegVids == {VidCommit(<<>>), VidCommit(<<1>>)}
\* payloads of the blocks recorded in the registry specification
RegPayloads == {<<1>>}

VARIABLES
  \* ---- GlobalState (service.rs:132-162)
  namespace_id,
  spawned_builder_states,            \* (vid, view) -> id of the owning builder state
  block_hash_to_block,               \* (builder commitment, view) -> BlockInfo
  builder_state_to_last_built_block, \* (vid, view) -> ResponseMessage
  last_garbage_collected_view_num,
  highest_view_num_builder_id,       \* <<vid, view>>
  \* ---- broadcast buses
  tx_bus,                            \* ReceivedTransaction items, in send order
  da_bus,                            \* DaProposalMessage items, in send order
  qc_bus,                            \* QCMessage items, in send order
  decide_bus,                        \* DecideMessage items, in send order
  \* ---- builder states (event loops); ids are handed out in creation order
  bs,                                \* sequence of builder state records
  \* ---- one available_blocks call of the gateway
  gw,
  response_channel,                  \* the call's reply channel
  \* ---- simulated consensus (finalization_test.rs)
  current_builder_state_id,
  phase,
  attempt,
  offer,                             \* result of the round's available_blocks
  proposal,                          \* the proposals of the next view
  n_submits,
  \* ---- one claim_block call of the gateway
  claim,
  \* ---- event driver (run_non_permissioned_standalone_builder_service)
  driver,
  \* ---- history
  calls,                             \* the available_blocks calls that returned
  handled,                           \* how the call's request was handled
  last_call,                         \* the last registry call and its arguments
  n_regs,
  n_built

reg_vars == <<spawned_builder_states, block_hash_to_block,
              builder_state_to_last_built_block,
              last_garbage_collected_view_num, highest_view_num_builder_id>>
bus_vars == <<tx_bus, da_bus, qc_bus>>
gw_vars == <<gw, response_channel>>
env_vars == <<current_builder_state_id, phase, attempt, offer, proposal,
              n_submits>>
call_vars == <<last_call, n_regs, n_built>>
ext_vars == <<decide_bus, claim, driver>>

vars == <<namespace_id, reg_vars, bus_vars, bs, gw_vars, env_vars, handled,
          call_vars, ext_vars, calls>>

ViewOf(key) == key[2]
VidOf(key) == key[1]

(***************************************************************************)
(* GlobalState: pure parts of the registry operations.                     *)
(***************************************************************************)

\* HashMap::insert: the entry of an existing key is overwritten
MapInsert(m, k, v) == [x \in DOMAIN m \cup {k} |-> IF x = k THEN v ELSE m[x]]

\* mutant: the entry of an existing key is replaced
MapInsertReplace(m, k, v) == [x \in DOMAIN m \cup {k} |-> IF x = k THEN v ELSE m[x]]

\* HashMap::entry(k).or_insert_with(v): the entry of an existing key is kept
MapInsertIfAbsent(m, k, v) == IF k \in DOMAIN m THEN m ELSE MapInsert(m, k, v)

\* mutant: highest follows every registration
register_highest_always(highest, vid, view) == <<vid, view>>

\* mutant: a registration at the view of highest takes its place
register_highest_tie(highest, vid, view) ==
  IF view >= ViewOf(highest) THEN <<vid, view>> ELSE highest

\* register_builder_state: "keep track of the max view number"
register_highest(highest, vid, view) ==
  IF view > ViewOf(highest) THEN <<vid, view>> ELSE highest

\* mutant: the cutoff is the decided view, whatever the highest view
remove_handles_cutoff_decide(highest, on_decide_view) == on_decide_view

\* remove_handles: cutoff = min(highest view, decided view)
remove_handles_cutoff(highest, on_decide_view) ==
  Min(ViewOf(highest), on_decide_view)

\* mutant: entries at the cutoff are dropped too
remove_handles_retain_above(states, cutoff) ==
  [k \in {x \in DOMAIN states : ViewOf(x) > cutoff} |-> states[k]]

\* remove_handles: spawned_builder_states.retain(view_num >= cutoff)
remove_handles_retain(states, cutoff) ==
  [k \in {x \in DOMAIN states : ViewOf(x) >= cutoff} |-> states[k]]

\* remove_handles: the new last_garbage_collected_view_num
remove_handles_gc_view(cutoff) == IF cutoff > 0 THEN cutoff - 1 ELSE 0

\* get_channel_for_matching_builder_or_highest_view_buider
get_channel_for_matching_builder_or_highest_view_buider(states, highest, key) ==
  IF key \in DOMAIN states THEN states[key]
  ELSE IF highest \in DOMAIN states THEN states[highest]
  ELSE NoBuilderState

\* check_builder_state_existence_for_a_view
check_builder_state_existence_for_a_view(states, view) ==
  \E k \in DOMAIN states : ViewOf(k) = view

\* should_view_handle_other_proposals
should_view_handle_other_proposals(states, highest, builder_view, proposal_view) ==
  /\ builder_view = ViewOf(highest)
  /\ ~ check_builder_state_existence_for_a_view(states, proposal_view)


(***************************************************************************)
(* GlobalState: the registry operations as they change the registry.       *)
(***************************************************************************)

\* GlobalState::register_builder_state
register_builder_state(vid, view, request_sender) ==
  /\ spawned_builder_states' =
       MapInsert(spawned_builder_states, <<vid, view>>, request_sender)
  /\ highest_view_num_builder_id' =
       register_highest(highest_view_num_builder_id, vid, view)
  /\ UNCHANGED <<block_hash_to_block, builder_state_to_last_built_block,
                 last_garbage_collected_view_num>>

\* GlobalState::update_global_state
update_global_state(build_block_info, vid, view, response_msg) ==
  /\ block_hash_to_block' =
       MapInsertIfAbsent(block_hash_to_block,
                         <<build_block_info.builder_hash, view>>,
                         [block_payload |-> build_block_info.block_payload,
                          offered_fee |-> build_block_info.offered_fee])
  /\ builder_state_to_last_built_block' =
       MapInsert(builder_state_to_last_built_block, <<vid, view>>, response_msg)
  /\ UNCHANGED <<spawned_builder_states, highest_view_num_builder_id,
                 last_garbage_collected_view_num>>

\* mutant: the collect also sweeps the two caches below the cutoff
remove_handles_sweep(on_decide_view) ==
  LET cutoff == remove_handles_cutoff(highest_view_num_builder_id, on_decide_view)
  IN /\ spawned_builder_states' =
          remove_handles_retain(spawned_builder_states, cutoff)
     /\ last_garbage_collected_view_num' = remove_handles_gc_view(cutoff)
     /\ block_hash_to_block' =
          remove_handles_retain(block_hash_to_block, cutoff)
     /\ builder_state_to_last_built_block' =
          remove_handles_retain(builder_state_to_last_built_block, cutoff)
     /\ UNCHANGED highest_view_num_builder_id

\* mutant: the collect also sweeps block_hash_to_block below the cutoff
remove_handles_sweep_blocks(on_decide_view) ==
  LET cutoff == remove_handles_cutoff(highest_view_num_builder_id, on_decide_view)
  IN /\ spawned_builder_states' =
          remove_handles_retain(spawned_builder_states, cutoff)
     /\ last_garbage_collected_view_num' = remove_handles_gc_view(cutoff)
     /\ block_hash_to_block' =
          remove_handles_retain(block_hash_to_block, cutoff)
     /\ UNCHANGED <<builder_state_to_last_built_block,
                    highest_view_num_builder_id>>

\* GlobalState::remove_handles
remove_handles(on_decide_view) ==
  LET cutoff == remove_handles_cutoff(highest_view_num_builder_id, on_decide_view)
  IN /\ spawned_builder_states' =
          remove_handles_retain(spawned_builder_states, cutoff)
     /\ last_garbage_collected_view_num' = remove_handles_gc_view(cutoff)
     /\ UNCHANGED <<block_hash_to_block, builder_state_to_last_built_block,
                    highest_view_num_builder_id>>

(***************************************************************************)
(* Transactions and the ingress filter.                                    *)
(***************************************************************************)

\* BuilderTransaction::namespace_id of a transaction
NamespaceOf(tx) == IF tx = 1 THEN "ns1" ELSE "ns2"

\* mutant: the transactions of the other namespaces are retained
handle_received_txns_filter_others(txns, ns) ==
  IF ns = NoNamespace THEN txns
  ELSE SelectSeq(txns, LAMBDA t : NamespaceOf(t) # ns)

\* handle_received_txns: txns.retain(|txn| txn.namespace_id() == namespace_id)
handle_received_txns_filter(txns, ns) ==
  IF ns = NoNamespace THEN txns
  ELSE SelectSeq(txns, LAMBDA t : NamespaceOf(t) = ns)

\* handle_received_txns: the ReceivedTransaction items broadcast, in order
\* (time_in, the instant of arrival, is counted in views of consensus)
RECURSIVE handle_received_txns_items(_, _, _)
handle_received_txns_items(txns, source, time_in) ==
  IF txns = <<>> THEN <<>>
  ELSE <<[commit |-> Head(txns), source |-> source, time_in |-> time_in]>>
         \o handle_received_txns_items(Tail(txns), source, time_in)

\* handle_received_txns: `results`, the commitment of every retained
\* transaction, pushed before the transaction is broadcast; Ok(results)
handle_received_txns_results(txns, ns) ==
  [kind |-> "Ok", commits |-> handle_received_txns_filter(txns, ns)]

\* handle_received_txns: filter, then broadcast each transaction on the tx bus
handle_received_txns(txns, source, ns, time_in) ==
  tx_bus' = tx_bus \o
            handle_received_txns_items(handle_received_txns_filter(txns, ns),
                                       source, time_in)

(***************************************************************************)
(* Event driver: DA and quorum proposals.                                  *)
(***************************************************************************)

\* handle_da_event: the transaction commitments kept in the DA message
handle_da_event_txn_commitments(payload, ns) ==
  IF ns = NoNamespace THEN SeqToSet(payload)
  ELSE {t \in SeqToSet(payload) : NamespaceOf(t) # ns}

\* mutant: the proposal of the leader is broadcast whatever its signature
handle_da_event_valid_leader(is_leader, sig_ok) == is_leader

\* handle_da_event: `leader == sender && sender.validate(&signature,
\* &encoded_txns_hash)`
handle_da_event_valid(is_leader, sig_ok) == is_leader /\ sig_ok

\* handle_qc_event: `sender == leader && sender.validate(&signature,
\* leaf.commit())`
handle_qc_event_valid(is_leader, sig_ok) == is_leader /\ sig_ok

\* handle_da_event: the DaProposalMessage built from a valid proposal
handle_da_event_msg(view, payload, ns) ==
  [view_number |-> view,
   txn_commitments |-> handle_da_event_txn_commitments(payload, ns),
   builder_commitment |-> BuilderCommit(payload)]

\* handle_qc_event: the QCMessage of a valid proposal; its block header carries
\* the payload commitment and the builder commitment
handle_qc_event_msg(view, payload) ==
  [view_number |-> view,
   payload_commitment |-> VidCommit(payload),
   builder_commitment |-> BuilderCommit(payload)]

(***************************************************************************)
(* Builder state (the per-anchor actor), spec.md section 4.3.              *)
(* A builder state is a record; `live` says that its event loop runs, the  *)
(* positions are those of its receivers on the three buses, `req` is its   *)
(* own request channel.  nonempty_view is history: the view of the last    *)
(* request this state or an ancestor answered with a non-empty block.      *)
(***************************************************************************)

\* the builder state created by setup_builder_for_test / at start-up
BootstrapState ==
  [anchor |-> BootstrapId, mempool |-> <<>>, seen_da |-> <<>>, seen_qc |-> <<>>,
   allow_empty_block_until |-> NoView, spawned |-> {}, live |-> TRUE,
   tx_pos |-> 0, da_pos |-> 0, qc_pos |-> 0, decide_pos |-> 0, req |-> <<>>,
   nonempty_view |-> NoView, recording |-> <<>>]

\* the transaction commitments of the seen DA proposals of the views in `views`
SeenDaTxns(s, views) ==
  UNION {s.seen_da[v].txn_commitments : v \in DOMAIN s.seen_da \cap views}

\* mutant: every transaction read from the bus is appended
bs_process_tx_append(s, tx) ==
  [s EXCEPT !.mempool = Append(@, tx)]

\* 4.3 Transaction: append unless present or in a seen DA proposal of a view
\* above the anchor's
bs_process_tx(s, tx) ==
  IF \/ tx \in SeqToSet(s.mempool)
     \/ tx \in SeenDaTxns(s, {v \in DOMAIN s.seen_da : v > ViewOf(s.anchor)})
  THEN s
  ELSE [s EXCEPT !.mempool = Append(@, tx)]

\* the state reads every transaction its receiver has not read yet
RECURSIVE bs_collect_txns(_, _)
bs_collect_txns(s, bus) ==
  IF s.tx_pos >= Len(bus) THEN s
  ELSE bs_collect_txns([bs_process_tx(s, bus[s.tx_pos + 1].commit)
                          EXCEPT !.tx_pos = @ + 1], bus)

\* 4.3.1 step 1: the transactions of the mempool not claimed by a seen DA
\* proposal of a view <= the requested view
bs_unclaimed(s, view) ==
  SelectSeq(s.mempool,
            LAMBDA t : t \notin SeenDaTxns(s, {v \in DOMAIN s.seen_da : v <= view}))

\* 4.3.1: the state accepts a request for its own parent at its view or later
bs_accepts(s, req) ==
  /\ req.requested_vid_commitment = VidOf(s.anchor)
  /\ req.requested_view_number >= ViewOf(s.anchor)

\* mutant: the empty-block gate never closes
bs_should_build_always(s, have_tx, view) == TRUE

\* 4.3.1 step 1, the empty-block gate: build unless there is no transaction
\* and the requested view is past allow_empty_block_until
bs_should_build(s, have_tx, view) ==
  have_tx \/ (s.allow_empty_block_until # NoView /\ view <= s.allow_empty_block_until)

\* 4.3.1 step 2: BuildBlockInfo of the block built from the unclaimed transactions
bs_build_block(payload) ==
  [builder_hash |-> BuilderCommit(payload), block_payload |-> payload,
   block_size |-> Len(payload), offered_fee |-> 0]

\* the ResponseMessage of a built block
bs_response(info) ==
  [builder_hash |-> info.builder_hash, block_size |-> info.block_size,
   offered_fee |-> info.offered_fee]

\* 4.3.1 step 5: a non-empty build opens the empty-block window
bs_after_build(s, info, view) ==
  IF info.block_size > 0
  THEN [s EXCEPT !.allow_empty_block_until = view + ALLOW_EMPTY_BLOCK_PERIOD,
                 !.nonempty_view = view]
  ELSE s

\* 4.3 DA proposal / quorum proposal: a stored pair of one view matches when
\* both carry the same builder commitment
bs_matching_pair(s, view) ==
  /\ view \in DOMAIN s.seen_da
  /\ view \in DOMAIN s.seen_qc
  /\ s.seen_da[view].builder_commitment = s.seen_qc[view].builder_commitment

\* mutant: the state spawns whenever it stores a proposal of a matching pair
bs_should_spawn_again(s, view) ==
  /\ view = ViewOf(s.anchor) + 1
  /\ bs_matching_pair(s, view)

\* 4.3.2: the state spawns for a matching pair of its next view, once per pair
bs_should_spawn(s, view) ==
  /\ view = ViewOf(s.anchor) + 1
  /\ bs_matching_pair(s, view)
  /\ <<view, s.seen_da[view].builder_commitment>> \notin s.spawned

\* mutant: the successor starts with the whole mempool of the state
bs_child_whole_mempool(s, view) ==
  [s EXCEPT !.anchor = <<s.seen_qc[view].payload_commitment, view>>,
            !.spawned = {},
            !.req = <<>>]

\* 4.3.2: the successor is a copy of the state, anchored at the payload
\* commitment of the quorum proposal's header, with the remaining transactions
bs_child(s, view) ==
  [s EXCEPT !.anchor = <<s.seen_qc[view].payload_commitment, view>>,
            !.mempool = SelectSeq(s.mempool,
                          LAMBDA t : t \notin s.seen_da[view].txn_commitments),
            !.spawned = {},
            !.req = <<>>]

\* the state after it has spawned for `view`
bs_spawned(s, view) ==
  [s EXCEPT !.spawned = @ \cup {<<view, s.seen_da[view].builder_commitment>>}]

(***************************************************************************)
(* Initial state: setup_builder_for_test, with or without a namespace.     *)
(***************************************************************************)

NamespaceChoices == {NoNamespace, "ns1"}

NoResult == [kind |-> "none", blocks |-> <<>>]
GwIdle == [pc |-> "idle", parent |-> GenesisVid, view |-> GenesisView,
           stray |-> FALSE, valid |-> TRUE, sent_to |-> NoBuilderState,
           via |-> "none", result |-> NoResult]
NotHandled == [sid |-> NoBuilderState, accepted |-> FALSE, have_tx |-> FALSE,
               allow_before |-> NoView, allow_after |-> NoView,
               nonempty_before |-> NoView, replied |-> FALSE,
               block_size |-> NoView]
NoOffer == [block_hash |-> BuilderCommit(<<>>), block_size |-> NoView,
            offered_fee |-> 0]
NoProposal == [payload |-> <<>>, da_sent |-> FALSE, qc_sent |-> FALSE]
NoCall == [op |-> "none", vid |-> GenesisVid, view |-> GenesisView,
           gc |-> GenesisView, id |-> NoBuilderState, ret |-> NoView,
           info |-> NoOffer, txns |-> <<>>, open |-> TRUE]

\* no claim_block call was made
NoClaim == [block_hash |-> BuilderCommit(<<>>), view |-> NoView, valid |-> FALSE,
            result |-> [kind |-> "none", block_payload |-> <<>>, fee |-> 0]]
\* the event driver after its connection to the events service: it runs, no
\* event was handled, no bid was submitted
\* (to_collect is history: the keys that were registered below the cutoff of
\* a Decide when the driver handled it)
\* (reconnect_failed and panicked are history: an attempt to reconnect failed,
\* the handling of an event panicked)
\* (last_event is history: the kind of the event handled last and, for a
\* proposal, whether its sender was the leader and its signature validated)
NoEvent == [kind |-> "none", is_leader |-> FALSE, sig_ok |-> FALSE]
DriverStart == [running |-> TRUE, events |-> 0, bids |-> 0, bid_failed |-> FALSE,
                after_failure |-> 0, to_collect |-> {},
                reconnects |-> 0, reconnect_failed |-> FALSE,
                panicked |-> FALSE, last_event |-> NoEvent]

\* GlobalState::new and the bootstrap builder state
Init ==
  /\ namespace_id \in NamespaceChoices
  /\ spawned_builder_states = [k \in {BootstrapId} |-> 1]
  /\ block_hash_to_block = <<>>
  /\ builder_state_to_last_built_block = <<>>
  /\ last_garbage_collected_view_num = GenesisView
  /\ highest_view_num_builder_id = BootstrapId
  /\ tx_bus = <<>>
  /\ da_bus = <<>>
  /\ qc_bus = <<>>
  /\ bs = <<BootstrapState>>
  /\ gw = GwIdle
  /\ response_channel = <<>>
  /\ current_builder_state_id = BootstrapId
  /\ phase = "ask"
  /\ attempt = 0
  /\ offer = NoOffer
  /\ proposal = NoProposal
  /\ n_submits = 0
  /\ handled = NotHandled
  /\ last_call = NoCall
  /\ n_regs = 0
  /\ n_built = 0
  /\ decide_bus = <<>>
  /\ claim = NoClaim
  /\ driver = DriverStart
  /\ calls = {}

(***************************************************************************)
(* Scheduling.  Timers are not modelled by clocks but by what they wait    *)
(* for: a state more than StaleAfter views behind consensus is a slow task *)
(* that reads its buses no more (it still serves its request channel); the *)
(* gateway's half-deadline for an exact match outlasts the time the        *)
(* scheduled states need to read the proposals sent so far, and its full   *)
(* deadline outlasts the handling of a request by a live state.  The       *)
(* simulated consensus calls the builder once the scheduled states have    *)
(* read the proposals sent so far, and sends the proposals of the next     *)
(* view once they have read the transactions as well.                      *)
(***************************************************************************)

Scheduled(i) ==
  /\ bs[i].live
  /\ ViewOf(bs[i].anchor) + StaleAfter >= ViewOf(current_builder_state_id)

ProposalsQuiescent ==
  \A i \in 1 .. Len(bs) :
    Scheduled(i) => bs[i].da_pos = Len(da_bus) /\ bs[i].qc_pos = Len(qc_bus)

TxsRead ==
  \A i \in 1 .. Len(bs) : Scheduled(i) => bs[i].tx_pos = Len(tx_bus)

Quiescent == ProposalsQuiescent /\ TxsRead

RequestPending ==
  \E i \in 1 .. Len(bs) : bs[i].live /\ bs[i].req # <<>>

(***************************************************************************)
(* ProxyGlobalState::submit_txns                                           *)
(***************************************************************************)

\* the transaction lists a client submits
SubmitChoices == {<<t>> : t \in Txs}

\* submit_txns -> GlobalState::submit_client_txns -> handle_received_txns
submit_txns(txns) ==
  /\ n_submits < MaxSubmits
  /\ phase = "ask"
  /\ gw.pc = "idle"
  /\ n_submits' = n_submits + 1
  /\ handle_received_txns(txns, "External", namespace_id,
                          ViewOf(current_builder_state_id))
  /\ UNCHANGED <<namespace_id, reg_vars, da_bus, qc_bus, bs, gw_vars,
                 current_builder_state_id, phase, attempt, offer, proposal,
                 handled, call_vars, ext_vars, calls>>

(***************************************************************************)
(* Builder state event loop (spec.md 4.3).                                 *)
(***************************************************************************)

\* a transaction from the tx bus
bs_recv_tx(i) ==
  /\ Scheduled(i)
  /\ bs[i].tx_pos < Len(tx_bus)
  /\ bs' = [bs EXCEPT ![i] = [bs_process_tx(@, tx_bus[@.tx_pos + 1].commit)
                                EXCEPT !.tx_pos = @ + 1]]
  /\ UNCHANGED <<namespace_id, reg_vars, bus_vars, gw_vars, env_vars, handled,
                 call_vars, ext_vars, calls>>

\* after storing a proposal of `view`: the state alone, or, when the pair
\* matches, the state that has spawned followed by its successor
bs_proposal_outcome(s, view) ==
  IF bs_should_spawn(s, view)
  THEN <<bs_spawned(s, view), bs_child(s, view)>>
  ELSE <<s>>

\* after storing a proposal of `view`: spawn-child when the pair matches
bs_store_then_spawn(i, s, view) ==
  LET outcome == bs_proposal_outcome(s, view)
  IN IF Len(outcome) = 2
     THEN /\ bs' = Append([bs EXCEPT ![i] = outcome[1]], outcome[2])
          /\ register_builder_state(VidOf(outcome[2].anchor),
                                    ViewOf(outcome[2].anchor), Len(bs) + 1)
     ELSE /\ bs' = [bs EXCEPT ![i] = outcome[1]]
          /\ UNCHANGED reg_vars

\* mutant: a DA proposal starts its view afresh, forgetting the quorum
\* proposal stored for it
bs_store_da_afresh(s, msg) ==
  [s EXCEPT !.da_pos = @ + 1,
            !.seen_da = MapInsert(@, msg.view_number,
               [txn_commitments |-> msg.txn_commitments,
                builder_commitment |-> msg.builder_commitment]),
            !.seen_qc = [v \in DOMAIN @ \ {msg.view_number} |-> @[v]]]

\* 4.3 DA proposal: store the proposal under its view
bs_store_da(s, msg) ==
  [s EXCEPT !.da_pos = @ + 1,
            !.seen_da = MapInsert(@, msg.view_number,
               [txn_commitments |-> msg.txn_commitments,
                builder_commitment |-> msg.builder_commitment])]

\* 4.3 Quorum proposal: store the proposal under its view
bs_store_qc(s, msg) ==
  [s EXCEPT !.qc_pos = @ + 1,
            !.seen_qc = MapInsert(@, msg.view_number,
               [payload_commitment |-> msg.payload_commitment,
                builder_commitment |-> msg.builder_commitment])]

\* a DA proposal from the DA bus
bs_recv_da(i) ==
  /\ Scheduled(i)
  /\ bs[i].da_pos < Len(da_bus)
  /\ LET msg == da_bus[bs[i].da_pos + 1]
     IN bs_store_then_spawn(i, bs_store_da(bs[i], msg), msg.view_number)
  /\ UNCHANGED <<namespace_id, bus_vars, gw_vars, env_vars, handled,
                 call_vars, ext_vars, calls>>

\* a quorum proposal from the QC bus
bs_recv_qc(i) ==
  /\ Scheduled(i)
  /\ bs[i].qc_pos < Len(qc_bus)
  /\ LET msg == qc_bus[bs[i].qc_pos + 1]
     IN bs_store_then_spawn(i, bs_store_qc(bs[i], msg), msg.view_number)
  /\ UNCHANGED <<namespace_id, bus_vars, gw_vars, env_vars, handled,
                 call_vars, ext_vars, calls>>

\* a request from the state's request channel (4.3.1); the state first reads
\* the transactions waiting on the tx bus (the channel-build timeout of 6)
bs_recv_req(i) ==
  /\ bs[i].live
  /\ bs[i].req # <<>>
  /\ LET req == Head(bs[i].req)
         s0 == [bs[i] EXCEPT !.req = Tail(@)]
         s1 == IF bs_accepts(s0, req) THEN bs_collect_txns(s0, tx_bus) ELSE s0
         view == req.requested_view_number
         payload == bs_unclaimed(s1, view)
         have_tx == payload # <<>>
         build == bs_accepts(s1, req) /\ bs_should_build(s1, have_tx, view)
         info == bs_build_block(payload)
         s2 == IF build THEN bs_after_build(s1, info, view) ELSE s1
     IN /\ bs' = [bs EXCEPT ![i] = s2]
        /\ IF build
           THEN /\ update_global_state(info, VidOf(s1.anchor), ViewOf(s1.anchor),
                                       bs_response(info))
                /\ response_channel' = Append(response_channel, bs_response(info))
           ELSE UNCHANGED <<reg_vars, response_channel>>
        /\ handled' = [sid |-> i, accepted |-> bs_accepts(s1, req),
                       have_tx |-> have_tx,
                       allow_before |-> s1.allow_empty_block_until,
                       allow_after |-> s2.allow_empty_block_until,
                       nonempty_before |-> s1.nonempty_view,
                       replied |-> build,
                       block_size |-> IF build THEN info.block_size ELSE NoView]
  /\ UNCHANGED <<namespace_id, bus_vars, gw, env_vars, call_vars, ext_vars, calls>>

(***************************************************************************)
(* ProxyGlobalState::available_blocks, one action per suspension point.    *)
(***************************************************************************)

RequestMessage(parent, view) ==
  [requested_vid_commitment |-> parent, requested_view_number |-> view]

\* broadcast of the request into the channel of builder state `sid`; a
\* broadcast into the channel of a state that runs no more fails and is logged
available_blocks_broadcast(sid, req) ==
  IF bs[sid].live
  THEN bs' = [bs EXCEPT ![sid].req = Append(@, req)]
  ELSE UNCHANGED bs

\* mutant: a request for the garbage-collected view itself is refused too
available_blocks_already_decided_at_gc(view, gc_view, highest) ==
  view <= gc_view /\ ViewOf(highest) # gc_view

\* builder.broadcast(..).await completes at once when the channel of the state
\* is closed (the broadcast fails) or has room; it waits while the channel of
\* a running state is full
available_blocks_broadcast_ready(sid) ==
  ~ bs[sid].live \/ Len(bs[sid].req) < TEST_CHANNEL_BUFFER_SIZE

\* "1st case: Decide event received, and not bootstrapping"
available_blocks_already_decided(view, gc_view, highest) ==
  view < gc_view /\ ViewOf(highest) # gc_view

\* the call up to its first suspension point: the signature check (`valid`
\* is sender.validate(signature, for_parent)), then the check against the
\* garbage-collected view
available_blocks_checks(valid, view, gc_view, highest) ==
  IF ~ valid THEN "InvalidSignature"
  ELSE IF available_blocks_already_decided(view, gc_view, highest)
       THEN "ViewAlreadyDecided"
       ELSE "poll"

\* signature check (the caller signs the parent), the check against the
\* garbage-collected view, and the creation of the reply channel
available_blocks_start(parent, view, stray, valid) ==
  /\ gw.pc = "idle"
  /\ LET checks == available_blocks_checks(valid, view,
                      last_garbage_collected_view_num,
                      highest_view_num_builder_id)
         call == [GwIdle EXCEPT !.parent = parent, !.view = view,
                                !.stray = stray, !.valid = valid]
     IN gw' = IF checks = "poll"
              THEN [call EXCEPT !.pc = "poll"]
              ELSE [call EXCEPT !.pc = "done",
                                !.result = [kind |-> checks, blocks |-> <<>>]]
  /\ response_channel' = <<>>
  /\ handled' = NotHandled

\* the call is suspended in `builder.broadcast(..).await` of the poll loop: the
\* lookup found the key and the channel of the running state is full
available_blocks_awaits_broadcast ==
  /\ gw.pc = "poll"
  /\ <<gw.parent, gw.view>> \in DOMAIN spawned_builder_states
  /\ ~ available_blocks_broadcast_ready(
         spawned_builder_states[<<gw.parent, gw.view>>])

\* the read guard on the global state that the poll loop holds: the guard is a
\* temporary of the scrutinee of `if let Some(builder) = ..read_arc().await
\* .spawned_builder_states.get(&key)`, and `builder` borrows from it, so it
\* lives until the body of the `if let`, with the broadcast, has ended
available_blocks_read_guard ==
  /\ gw.pc = "poll"
  /\ <<gw.parent, gw.view>> \in DOMAIN spawned_builder_states

\* mutant: the poll loop sends the request to the state of `highest`
available_blocks_poll_target_highest(states, highest, key) == states[highest]

\* the poll loop found spawned_builder_states.get(&key)
available_blocks_poll_target(states, highest, key) == states[key]

\* the poll loop: an exact match is registered, the request is broadcast to it
available_blocks_poll ==
  /\ gw.pc = "poll"
  /\ <<gw.parent, gw.view>> \in DOMAIN spawned_builder_states
  /\ LET sid == available_blocks_poll_target(spawned_builder_states,
                  highest_view_num_builder_id, <<gw.parent, gw.view>>)
     IN /\ available_blocks_broadcast_ready(sid)
        /\ available_blocks_broadcast(sid, RequestMessage(gw.parent, gw.view))
        /\ gw' = [gw EXCEPT !.pc = "wait", !.sent_to = sid, !.via = "exact"]
  /\ UNCHANGED <<namespace_id, reg_vars, bus_vars, response_channel, env_vars,
                 handled, call_vars, ext_vars, calls>>

\* no exact match within max_api_waiting_time / 2: the request is broadcast
\* to the fallback state
available_blocks_fallback ==
  /\ gw.pc = "poll"
  /\ <<gw.parent, gw.view>> \notin DOMAIN spawned_builder_states
  /\ ProposalsQuiescent
  /\ LET sid == get_channel_for_matching_builder_or_highest_view_buider(
                  spawned_builder_states, highest_view_num_builder_id,
                  <<gw.parent, gw.view>>)
     IN IF sid = NoBuilderState
        THEN /\ gw' = [gw EXCEPT !.pc = "done",
                                 !.result = [kind |-> "NoBuilderState",
                                             blocks |-> <<>>]]
             /\ UNCHANGED bs
        ELSE /\ available_blocks_broadcast_ready(sid)
             /\ available_blocks_broadcast(sid, RequestMessage(gw.parent, gw.view))
             /\ gw' = [gw EXCEPT !.pc = "wait", !.sent_to = sid,
                                 !.via = "fallback"]
  /\ UNCHANGED <<namespace_id, reg_vars, bus_vars, response_channel, env_vars,
                 handled, call_vars, ext_vars, calls>>

\* the AvailableBlockInfo signed and returned for a response
available_blocks_info(response) ==
  [block_hash |-> response.builder_hash, block_size |-> response.block_size,
   offered_fee |-> response.offered_fee]

\* a reply arrived on the reply channel before the deadline
available_blocks_reply ==
  /\ gw.pc = "wait"
  /\ response_channel # <<>>
  /\ gw' = [gw EXCEPT !.pc = "done",
                      !.result = [kind |-> "ok",
                         blocks |-> <<available_blocks_info(Head(response_channel))>>]]
  /\ response_channel' = Tail(response_channel)
  /\ UNCHANGED <<namespace_id, reg_vars, bus_vars, bs, env_vars, handled,
                 call_vars, ext_vars, calls>>

\* mutant: the cache is searched by the parent commitment alone
available_blocks_timeout_result_by_parent(last_built, key) ==
  IF \E k \in DOMAIN last_built : VidOf(k) = VidOf(key)
  THEN [kind |-> "ok",
        blocks |-> <<available_blocks_info(
                       last_built[CHOOSE k \in DOMAIN last_built :
                                    VidOf(k) = VidOf(key)])>>]
  ELSE [kind |-> "NoBlocksAvailable", blocks |-> <<>>]

\* mutant: the cache is searched by the view alone
available_blocks_timeout_result_by_view(last_built, key) ==
  IF \E k \in DOMAIN last_built : ViewOf(k) = ViewOf(key)
  THEN [kind |-> "ok",
        blocks |-> <<available_blocks_info(
                       last_built[CHOOSE k \in DOMAIN last_built :
                                    ViewOf(k) = ViewOf(key)])>>]
  ELSE [kind |-> "NoBlocksAvailable", blocks |-> <<>>]

\* mutant: the timeout path returns a cached block of any key
available_blocks_timeout_result_any_key(last_built, key) ==
  IF DOMAIN last_built # {}
  THEN [kind |-> "ok",
        blocks |-> <<available_blocks_info(
                       last_built[CHOOSE k \in DOMAIN last_built : TRUE])>>]
  ELSE [kind |-> "NoBlocksAvailable", blocks |-> <<>>]

\* the result of the timeout path: the cached last built block of the key
available_blocks_timeout_result(last_built, key) ==
  IF key \in DOMAIN last_built
  THEN [kind |-> "ok", blocks |-> <<available_blocks_info(last_built[key])>>]
  ELSE [kind |-> "NoBlocksAvailable", blocks |-> <<>>]

\* the total deadline expired without a reply
available_blocks_deadline ==
  /\ gw.pc = "wait"
  /\ response_channel = <<>>
  /\ gw' = [gw EXCEPT !.pc = "done",
                      !.result = available_blocks_timeout_result(
                         builder_state_to_last_built_block, <<gw.parent, gw.view>>)]
  /\ UNCHANGED <<namespace_id, reg_vars, bus_vars, bs, response_channel,
                 env_vars, handled, call_vars, ext_vars, calls>>

\* the total deadline of a call whose request a live state handles in time
available_blocks_timeout ==
  /\ ~ RequestPending
  /\ available_blocks_deadline

(***************************************************************************)
(* ProxyGlobalState::claim_block                                           *)
(***************************************************************************)

\* mutant: the block is looked up by its hash alone
claim_block_any_view(built, block_hash, view) ==
  IF \E k \in DOMAIN built : k[1] = block_hash
  THEN LET k == CHOOSE k \in DOMAIN built : k[1] = block_hash
       IN [kind |-> "ok", block_payload |-> built[k].block_payload,
           fee |-> built[k].offered_fee]
  ELSE [kind |-> "BlockNotFound", block_payload |-> <<>>, fee |-> 0]

\* mutant: the block is looked up under the view after the requested one
claim_block_next_view(built, block_hash, view) ==
  IF <<block_hash, view + 1>> \in DOMAIN built
  THEN [kind |-> "ok",
        block_payload |-> built[<<block_hash, view + 1>>].block_payload,
        fee |-> built[<<block_hash, view + 1>>].offered_fee]
  ELSE [kind |-> "BlockNotFound", block_payload |-> <<>>, fee |-> 0]

\* claim_block with a valid signature: the block data or "Block data not found"
claim_block(built, block_hash, view) ==
  IF <<block_hash, view>> \in DOMAIN built
  THEN [kind |-> "ok", block_payload |-> built[<<block_hash, view>>].block_payload,
        fee |-> built[<<block_hash, view>>].offered_fee]
  ELSE [kind |-> "BlockNotFound", block_payload |-> <<>>, fee |-> 0]

\* mutant: the block is looked up before the signature is checked
claim_block_checks_lookup_first(valid, built, block_hash, view) ==
  IF <<block_hash, view>> \in DOMAIN built
  THEN claim_block(built, block_hash, view)
  ELSE IF ~ valid
       THEN [kind |-> "InvalidSignature", block_payload |-> <<>>, fee |-> 0]
       ELSE claim_block(built, block_hash, view)

\* claim_block: the signature check (`valid` is
\* sender.validate(signature, block_hash)), then the lookup
claim_block_checks(valid, built, block_hash, view) ==
  IF ~ valid
  THEN [kind |-> "InvalidSignature", block_payload |-> <<>>, fee |-> 0]
  ELSE claim_block(built, block_hash, view)

\* one claim_block call: it takes the read lock and changes nothing
claim_block_call(block_hash, view, valid) ==
  /\ claim' = [block_hash |-> block_hash, view |-> view, valid |-> valid,
               result |-> claim_block_checks(valid, block_hash_to_block,
                                             block_hash, view)]
  /\ UNCHANGED <<namespace_id, reg_vars, bus_vars, bs, gw_vars, handled,
                 call_vars, decide_bus, driver, calls>>

(***************************************************************************)
(* Simulated consensus (finalization_test.rs): a round asks the builder    *)
(* for the current builder state id up to TEST_NUM_CONSENSUS_RETRIES       *)
(* times, claims the offered block, and advances the view with a DA and a  *)
(* quorum proposal that carry the claimed transactions (none without an    *)
(* offer).                                                                 *)
(***************************************************************************)

\* process_available_blocks_round: one attempt
consensus_ask ==
  /\ phase = "ask"
  /\ attempt < TEST_NUM_CONSENSUS_RETRIES
  /\ ProposalsQuiescent
  /\ available_blocks_start(VidOf(current_builder_state_id),
                            ViewOf(current_builder_state_id), FALSE, TRUE)
  /\ attempt' = attempt + 1
  /\ UNCHANGED <<namespace_id, reg_vars, bus_vars, bs,
                 current_builder_state_id, phase, offer, proposal, n_submits,
                 call_vars, ext_vars, calls>>

\* parent commitments consensus may ask for besides the current one
StrayVids == {VidCommit(<<>>), VidCommit(<<1>>)}

\* instead of a round, consensus makes one last call, for another parent or
\* view than the current builder state id
consensus_ask_other(parent, view) ==
  /\ phase = "ask"
  /\ attempt = 0
  /\ Quiescent
  /\ <<parent, view>> # current_builder_state_id
  /\ available_blocks_start(parent, view, TRUE, TRUE)
  /\ phase' = "last"
  /\ UNCHANGED <<namespace_id, reg_vars, bus_vars, bs,
                 current_builder_state_id, attempt, offer, proposal,
                 n_submits, call_vars, ext_vars, calls>>

\* process_available_blocks_round: the result of an attempt
consensus_result ==
  /\ gw.pc = "done"
  /\ gw' = [gw EXCEPT !.pc = "idle"]
  /\ IF gw.stray
     THEN UNCHANGED <<phase, offer>>
     ELSE IF gw.result.kind = "ok"
          THEN /\ phase' = "claim"
               /\ offer' = gw.result.blocks[1]
          ELSE /\ phase' = IF attempt >= TEST_NUM_CONSENSUS_RETRIES
                           THEN "propose" ELSE "ask"
               /\ offer' = NoOffer
  /\ handled' = NotHandled
  /\ calls' = calls \cup {[parent |-> gw.parent, view |-> gw.view,
                            result |-> gw.result]}
  /\ UNCHANGED <<namespace_id, reg_vars, bus_vars, bs, response_channel,
                 current_builder_state_id, attempt, proposal, n_submits,
                 call_vars, ext_vars>>

\* progress_round_with_available_block_info: claim_block must succeed
consensus_claim ==
  /\ phase = "claim"
  /\ LET data == claim_block(block_hash_to_block, offer.block_hash,
                             ViewOf(current_builder_state_id))
     IN IF data.kind = "ok"
        THEN /\ phase' = "propose"
             /\ proposal' = [NoProposal EXCEPT !.payload = data.block_payload]
        ELSE /\ phase' = "panic"
             /\ UNCHANGED proposal
  /\ UNCHANGED <<namespace_id, reg_vars, bus_vars, bs, gw_vars,
                 current_builder_state_id, attempt, offer, n_submits,
                 handled, call_vars, ext_vars, calls>>

\* progress_round_with_transactions: after both proposals the next builder
\* state id is (payload commitment of the quorum proposal, next view)
consensus_after_proposal(p) ==
  IF p.da_sent /\ p.qc_sent
  THEN /\ current_builder_state_id' =
            <<VidCommit(p.payload), ViewOf(current_builder_state_id) + 1>>
       /\ phase' = "ask"
       /\ attempt' = 0
       /\ offer' = NoOffer
       /\ proposal' = NoProposal
  ELSE /\ proposal' = p
       /\ UNCHANGED <<current_builder_state_id, phase, attempt, offer>>

\* the DA proposal of the next view, signed by its leader: handle_da_event
da_proposal ==
  /\ phase = "propose"
  /\ ViewOf(current_builder_state_id) < MaxView
  /\ ~ proposal.da_sent
  /\ Quiescent
  /\ da_bus' = Append(da_bus,
                 handle_da_event_msg(ViewOf(current_builder_state_id) + 1,
                                     proposal.payload, namespace_id))
  /\ consensus_after_proposal([proposal EXCEPT !.da_sent = TRUE])
  /\ UNCHANGED <<namespace_id, reg_vars, tx_bus, qc_bus, bs, gw_vars,
                 n_submits, handled, call_vars, ext_vars, calls>>

\* the quorum proposal of the next view, signed by its leader: handle_qc_event
quorum_proposal ==
  /\ phase = "propose"
  /\ ViewOf(current_builder_state_id) < MaxView
  /\ ~ proposal.qc_sent
  /\ Quiescent
  /\ qc_bus' = Append(qc_bus,
                 handle_qc_event_msg(ViewOf(current_builder_state_id) + 1,
                                     proposal.payload))
  /\ consensus_after_proposal([proposal EXCEPT !.qc_sent = TRUE])
  /\ UNCHANGED <<namespace_id, reg_vars, tx_bus, da_bus, bs, gw_vars,
                 n_submits, handled, call_vars, ext_vars, calls>>

(***************************************************************************)
(* Specification of the builder with its simulated consensus.              *)
(***************************************************************************)

Next ==
  \/ \E txns \in SubmitChoices : submit_txns(txns)
  \/ \E i \in 1 .. Len(bs) : bs_recv_tx(i)
  \/ \E i \in 1 .. Len(bs) : bs_recv_da(i)
  \/ \E i \in 1 .. Len(bs) : bs_recv_qc(i)
  \/ \E i \in 1 .. Len(bs) : bs_recv_req(i)
  \/ consensus_ask
  \/ \E parent \in StrayVids, view \in Views : consensus_ask_other(parent, view)
  \/ available_blocks_poll
  \/ available_blocks_fallback
  \/ available_blocks_reply
  \/ available_blocks_timeout
  \/ consensus_result
  \/ consensus_claim
  \/ da_proposal
  \/ quorum_proposal

Spec == Init /\ [][Next]_vars

(***************************************************************************)
(* Specification of the registry alone: any caller registers builder       *)
(* states (a successor's view is at least 1), records built blocks and     *)
(* collects at any decided view, in any order.  A registered builder state *)
(* runs its event loop.                                                    *)
(***************************************************************************)

RegViews == 1 .. MaxView

reg_unchanged == <<namespace_id, bus_vars, gw_vars, env_vars, handled, ext_vars,
                  calls>>

\* a builder state is created for (vid, view) and registers itself
reg_register(vid, view) ==
  /\ n_regs < MaxRegs
  /\ n_regs' = n_regs + 1
  /\ register_builder_state(vid, view, Len(bs) + 1)
  /\ bs' = Append(bs, [BootstrapState EXCEPT !.anchor = <<vid, view>>,
                                            !.tx_pos = Len(tx_bus),
                                            !.da_pos = Len(da_bus),
                                            !.qc_pos = Len(qc_bus),
                                            !.decide_pos = Len(decide_bus)])
  /\ last_call' = [op |-> "register", vid |-> vid, view |-> view,
                   gc |-> last_garbage_collected_view_num, id |-> Len(bs) + 1,
                   ret |-> NoView, info |-> NoOffer, txns |-> <<>>,
                   open |-> TRUE]
  /\ UNCHANGED <<reg_unchanged, n_built>>

\* builder state i records a block built from `payload`
reg_record_built(i, payload) ==
  /\ n_built < MaxBuilt
  /\ n_built' = n_built + 1
  /\ update_global_state(bs_build_block(payload), VidOf(bs[i].anchor),
                         ViewOf(bs[i].anchor),
                         bs_response(bs_build_block(payload)))
  /\ last_call' = [NoCall EXCEPT !.op = "record_built"]
  /\ UNCHANGED <<reg_unchanged, bs, n_regs>>

\* collect at the decided view
reg_collect(on_decide_view) ==
  /\ remove_handles(on_decide_view)
  /\ last_call' = [NoCall EXCEPT
                     !.op = "collect",
                     !.view = on_decide_view,
                     !.ret = remove_handles_cutoff(highest_view_num_builder_id,
                                                   on_decide_view)]
  /\ UNCHANGED <<reg_unchanged, bs, n_regs, n_built>>

RegNext ==
  \/ \E vid \in RegVids, view \in RegViews : reg_register(vid, view)
  \/ \E i \in 1 .. Len(bs), payload \in RegPayloads : reg_record_built(i, payload)
  \/ \E view \in Views : reg_collect(view)

\* the builder of the test set-up, which has no namespace
RegInit == Init /\ namespace_id = NoNamespace

RegSpec == RegInit /\ [][RegNext]_vars

(***************************************************************************)
(* Specification of the gateway over any registry: builder states are      *)
(* registered, blocks recorded and views collected in any order; then one  *)
(* client makes one call, available_blocks or claim_block, for any key and *)
(* with a signature that validates or not.  The builder states hold no     *)
(* transaction; a state may handle the request or be too slow for the      *)
(* deadline.                                                               *)
(***************************************************************************)

\* the block hashes a client may claim
ClaimHashes == {BuilderCommit(<<>>), BuilderCommit(<<1>>)}

gw_register(vid, view) ==
  /\ phase = "ask"
  /\ n_regs + n_built < MaxGwOps
  /\ reg_register(vid, view)

gw_record_built(i, payload) ==
  /\ phase = "ask"
  /\ n_regs + n_built < MaxGwOps
  /\ reg_record_built(i, payload)

gw_collect(on_decide_view) ==
  /\ phase = "ask"
  /\ reg_collect(on_decide_view)

\* the client's available_blocks call
gw_available_blocks(parent, view, valid) ==
  /\ phase = "ask"
  /\ available_blocks_start(parent, view, TRUE, valid)
  /\ phase' = "last"
  /\ UNCHANGED <<namespace_id, reg_vars, bus_vars, bs,
                 current_builder_state_id, attempt, offer, proposal,
                 n_submits, call_vars, ext_vars, calls>>

\* the client's claim_block call
gw_claim_block(block_hash, view, valid) ==
  /\ phase = "ask"
  /\ claim_block_call(block_hash, view, valid)
  /\ phase' = "last"
  /\ UNCHANGED <<current_builder_state_id, attempt, offer, proposal, n_submits>>

GwNext ==
  \/ \E vid \in RegVids, view \in RegViews : gw_register(vid, view)
  \/ \E i \in 1 .. Len(bs), payload \in RegPayloads : gw_record_built(i, payload)
  \/ \E view \in Views : gw_collect(view)
  \/ \E parent \in RegVids, view \in Views, valid \in BOOLEAN :
       gw_available_blocks(parent, view, valid)
  \/ \E block_hash \in ClaimHashes, view \in Views, valid \in BOOLEAN :
       gw_claim_block(block_hash, view, valid)
  \/ available_blocks_poll
  \/ available_blocks_fallback
  \/ \E i \in 1 .. Len(bs) : bs_recv_req(i)
  \/ available_blocks_deadline

GwSpec == RegInit /\ [][GwNext]_vars

(***************************************************************************)
(* Specification of scenario S6 of spec.md: builder states are registered  *)
(* at the views 5 to 8, a block is built at view 5, the Decide of view 7   *)
(* is processed by a collect, then available_blocks is called for view 4.  *)
(***************************************************************************)

S6RegViews == 5 .. 8

\* a builder state registers itself before the decide
s6_register(vid, view) ==
  /\ last_call.op # "collect"
  /\ reg_register(vid, view)

\* a builder state of view 5 builds a block before the decide
s6_build(i, payload) ==
  /\ last_call.op # "collect"
  /\ ViewOf(bs[i].anchor) = 5
  /\ reg_record_built(i, payload)

\* the Decide of view 7 is processed once a block was built at view 5
s6_decide ==
  /\ n_built > 0
  /\ reg_collect(7)

\* the subsequent call for view 4
s6_available_blocks(parent) ==
  /\ last_call.op = "collect"
  /\ gw_available_blocks(parent, 4, TRUE)

S6Next ==
  \/ \E vid \in RegVids, view \in S6RegViews : s6_register(vid, view)
  \/ \E i \in 1 .. Len(bs), payload \in RegPayloads : s6_build(i, payload)
  \/ s6_decide
  \/ \E parent \in RegVids : s6_available_blocks(parent)
  \* no state of view 4 is registered after the collect: the polling loop
  \* finds no exact match and the call goes on to the fallback
  \/ available_blocks_fallback
  \/ \E i \in 1 .. Len(bs) : bs_recv_req(i)
  \/ available_blocks_deadline

S6Spec == RegInit /\ [][S6Next]_vars

(***************************************************************************)
(* Specification of a client that calls available_blocks for the bootstrap *)
(* state again and again, one call after the other.  The gateway takes its *)
(* steps (its timers fire); the builder state handles a request or not.    *)
(***************************************************************************)

\* the client's next call
busy_available_blocks ==
  /\ available_blocks_start(VidOf(BootstrapId), ViewOf(BootstrapId), TRUE, TRUE)
  /\ UNCHANGED <<namespace_id, reg_vars, bus_vars, bs, env_vars, call_vars,
                 ext_vars, calls>>

BusyNext ==
  \/ busy_available_blocks
  \/ available_blocks_poll
  \/ available_blocks_deadline
  \/ consensus_result
  \/ \E i \in 1 .. Len(bs) : bs_recv_req(i)

\* the steps of the gateway are taken; nothing is assumed of the builder state
BusyFairness ==
  /\ WF_vars(available_blocks_poll)
  /\ WF_vars(available_blocks_deadline)
  /\ WF_vars(consensus_result)

BusySpec == RegInit /\ [][BusyNext]_vars /\ BusyFairness

(***************************************************************************)
(* Specification of the locking of the global state: a client submits a    *)
(* transaction and calls available_blocks for the bootstrap state again    *)
(* and again; the bootstrap state takes a request from its channel and     *)
(* builds, and then records the block under the write lock of the global   *)
(* state.  The gateway holds the read lock while it is suspended in the     *)
(* broadcast of the poll loop.                                             *)
(***************************************************************************)

\* a gateway task holds a read guard on the global state across an await
lock_read_held == available_blocks_awaits_broadcast /\ available_blocks_read_guard

\* 4.3.1 steps 1 and 2: builder state i takes a request from its channel and,
\* when it accepts it and has something to offer, builds the block
lock_take_req(i) ==
  /\ bs[i].live
  /\ bs[i].req # <<>>
  /\ bs[i].recording = <<>>
  /\ LET req == Head(bs[i].req)
         s0 == [bs[i] EXCEPT !.req = Tail(@)]
         s1 == IF bs_accepts(s0, req) THEN bs_collect_txns(s0, tx_bus) ELSE s0
         view == req.requested_view_number
         payload == bs_unclaimed(s1, view)
         build == /\ bs_accepts(s1, req)
                  /\ bs_should_build(s1, payload # <<>>, view)
     IN bs' = [bs EXCEPT ![i] =
                 IF build
                 THEN [s1 EXCEPT !.recording = <<[info |-> bs_build_block(payload),
                                                  view |-> view]>>]
                 ELSE s1]
  /\ UNCHANGED <<namespace_id, reg_vars, bus_vars, gw_vars, env_vars, handled,
                 call_vars, ext_vars, calls>>

\* 4.3.1 steps 3 to 5: builder state i takes the write lock of the global
\* state, which it gets when no read guard is held, records the block and
\* sends the response
lock_record(i) ==
  /\ bs[i].live
  /\ bs[i].recording # <<>>
  /\ ~ lock_read_held
  /\ LET info == bs[i].recording[1].info
         view == bs[i].recording[1].view
     IN /\ update_global_state(info, VidOf(bs[i].anchor), ViewOf(bs[i].anchor),
                               bs_response(info))
        /\ response_channel' = Append(response_channel, bs_response(info))
        /\ bs' = [bs EXCEPT ![i] =
                    [bs_after_build(@, info, view) EXCEPT !.recording = <<>>]]
  /\ UNCHANGED <<namespace_id, bus_vars, gw, env_vars, handled, call_vars,
                 ext_vars, calls>>

LockNext ==
  \/ \E txns \in SubmitChoices : submit_txns(txns)
  \/ busy_available_blocks
  \/ available_blocks_poll
  \/ available_blocks_reply
  \/ available_blocks_deadline
  \/ consensus_result
  \/ \E i \in 1 .. Len(bs) : lock_take_req(i)
  \/ \E i \in 1 .. Len(bs) : lock_record(i)

LockSpec == RegInit /\ [][LockNext]_vars

(***************************************************************************)
(* Specification of scenario S5 of spec.md: the simulated consensus runs   *)
(* to view 2; at view 3 it forks: besides the DA and the quorum proposal   *)
(* of the claimed payload the builder receives those of another payload.   *)
(* Then available_blocks is called for both parents at view 3.             *)
(***************************************************************************)

\* the payloads of the second branch
ForkPayloads == {<<>>, <<1>>}

\* the messages of view 3 on a bus
ForkMsgs(bus) == {bus[j] : j \in {x \in 1 .. Len(bus) : bus[x].view_number = 3}}

\* the payload of the first branch at view 3
fork_main_commitment ==
  IF phase = "propose" THEN BuilderCommit(proposal.payload)
  ELSE BuilderCommit(VidOf(current_builder_state_id)[2])

\* consensus is at the fork: the proposals of view 3 are being sent or were
\* sent, and `payload` is the one payload of the second branch
fork_open(payload, bus) ==
  /\ \/ phase = "propose" /\ ViewOf(current_builder_state_id) = 2
     \/ phase = "ask" /\ ViewOf(current_builder_state_id) = 3
  /\ gw.pc = "idle"
  /\ Quiescent
  /\ BuilderCommit(payload) # fork_main_commitment
  /\ \A m \in ForkMsgs(da_bus) \cup ForkMsgs(qc_bus) :
       m.builder_commitment \in {fork_main_commitment, BuilderCommit(payload)}
  /\ \A m \in ForkMsgs(bus) : m.builder_commitment # BuilderCommit(payload)

\* the rounds of the views before the fork
fork_round_step == ViewOf(current_builder_state_id) < 3

\* the DA proposal of the second branch
fork_da_proposal(payload) ==
  /\ fork_open(payload, da_bus)
  /\ da_bus' = Append(da_bus, handle_da_event_msg(3, payload, namespace_id))
  /\ UNCHANGED <<namespace_id, reg_vars, tx_bus, qc_bus, bs, gw_vars, env_vars,
                 handled, call_vars, ext_vars, calls>>

\* the quorum proposal of the second branch
fork_quorum_proposal(payload) ==
  /\ fork_open(payload, qc_bus)
  /\ qc_bus' = Append(qc_bus, handle_qc_event_msg(3, payload))
  /\ UNCHANGED <<namespace_id, reg_vars, tx_bus, da_bus, bs, gw_vars, env_vars,
                 handled, call_vars, ext_vars, calls>>

\* the parents of the two branches: the payload commitments of the quorum
\* proposals of view 3
ForkParents == {m.payload_commitment : m \in ForkMsgs(qc_bus)}

\* both pairs of proposals were sent and read by the builder states
ForksDelivered ==
  /\ phase = "ask"
  /\ ViewOf(current_builder_state_id) = 3
  /\ Cardinality(ForkMsgs(da_bus)) = 2
  /\ Cardinality(ForkMsgs(qc_bus)) = 2
  /\ Quiescent

\* available_blocks for the parent of a branch at view 3, once per parent
fork_available_blocks(parent) ==
  /\ ForksDelivered
  /\ parent \in ForkParents
  /\ \A c \in calls : <<c.parent, c.view>> # <<parent, 3>>
  /\ available_blocks_start(parent, 3, TRUE, TRUE)
  /\ UNCHANGED <<namespace_id, reg_vars, bus_vars, bs, env_vars, call_vars,
                 ext_vars, calls>>

ForkNext ==
  \/ \E txns \in SubmitChoices : fork_round_step /\ submit_txns(txns)
  \/ \E i \in 1 .. Len(bs) : bs_recv_tx(i)
  \/ \E i \in 1 .. Len(bs) : bs_recv_da(i)
  \/ \E i \in 1 .. Len(bs) : bs_recv_qc(i)
  \/ \E i \in 1 .. Len(bs) : bs_recv_req(i)
  \/ fork_round_step /\ consensus_ask
  \/ available_blocks_poll
  \/ available_blocks_fallback
  \/ available_blocks_reply
  \/ available_blocks_timeout
  \/ consensus_result
  \/ consensus_claim
  \/ fork_round_step /\ da_proposal
  \/ fork_round_step /\ quorum_proposal
  \/ \E payload \in ForkPayloads : fork_da_proposal(payload)
  \/ \E payload \in ForkPayloads : fork_quorum_proposal(payload)
  \/ \E parent \in StrayVids : fork_available_blocks(parent)

ForkSpec == RegInit /\ [][ForkNext]_vars

(***************************************************************************)
(* Event driver: run_non_permissioned_standalone_builder_service.  One     *)
(* action per event of the stream; the handlers of the DA and the quorum   *)
(* proposal drop a proposal whose sender is not the leader of its view or  *)
(* whose signature does not validate.                                      *)
(***************************************************************************)

\* handle_decide_event: the DecideMessage broadcast on the decide bus
handle_decide_event(latest_decide_view_number) ==
  decide_bus' = Append(decide_bus,
                       [latest_decide_view_number |-> latest_decide_view_number])

\* mutant: the state terminates only when the decided view is past its anchor's
bs_decide_past(s, decide_view) ==
  IF decide_view > ViewOf(s.anchor) THEN [s EXCEPT !.live = FALSE] ELSE s

\* 4.3 Decide: the state terminates when the decided view is at or past its
\* anchor's view, and ignores the message otherwise
bs_decide(s, decide_view) ==
  IF decide_view >= ViewOf(s.anchor) THEN [s EXCEPT !.live = FALSE] ELSE s

\* a decide message from the decide bus
bs_recv_decide(i) ==
  /\ i \in 1 .. Len(bs)
  /\ Scheduled(i)
  /\ bs[i].decide_pos < Len(decide_bus)
  /\ bs' = [bs EXCEPT ![i] =
              [bs_decide(@, decide_bus[@.decide_pos + 1].latest_decide_view_number)
                 EXCEPT !.decide_pos = @ + 1]]
  /\ UNCHANGED <<namespace_id, reg_vars, bus_vars, gw_vars, env_vars, handled,
                 call_vars, ext_vars, calls>>

\* the loop took one more event from the stream
driver_took_event ==
  /\ driver.running
  /\ driver.events < MaxEvents

\* the driver after it handled an event that cannot fail
driver_after_event ==
  [driver EXCEPT !.events = @ + 1,
                 !.after_failure = IF driver.bid_failed THEN @ + 1 ELSE @,
                 !.last_event = NoEvent]

\* EventType::Transactions
driver_transactions(txns) ==
  /\ driver_took_event
  /\ handle_received_txns(txns, "HotShot", namespace_id,
                          ViewOf(current_builder_state_id))
  /\ driver' = driver_after_event
  /\ UNCHANGED <<namespace_id, reg_vars, da_bus, qc_bus, bs, gw_vars, env_vars,
                 handled, call_vars, decide_bus, claim, calls>>

\* the driver after the handling of an event panicked: the task of the service
\* unwinds, no further event is taken
driver_panic == [driver_after_event EXCEPT !.running = FALSE, !.panicked = TRUE]

\* `leaf_chain[0]`: the index is in bounds when the chain has a leaf
driver_decide_index_ok(leaf_chain) == Len(leaf_chain) > 0

\* EventType::Decide: the view of leaf_chain[0] is broadcast; the indexing
\* panics on an empty chain
driver_decide(leaf_chain) ==
  /\ driver_took_event
  /\ IF driver_decide_index_ok(leaf_chain)
     THEN /\ handle_decide_event(leaf_chain[1])
          /\ driver' = [driver_after_event EXCEPT !.to_collect = @ \cup
                  {k \in DOMAIN spawned_builder_states :
                     ViewOf(k) < remove_handles_cutoff(
                                   highest_view_num_builder_id, leaf_chain[1])}]
     ELSE /\ driver' = driver_panic
          /\ UNCHANGED decide_bus
  /\ UNCHANGED <<namespace_id, reg_vars, bus_vars, bs, gw_vars, env_vars,
                 handled, call_vars, claim, calls>>

\* EventType::DaProposal -> handle_da_event
driver_da_proposal(view, payload, is_leader, sig_ok) ==
  /\ driver_took_event
  /\ da_bus' = IF handle_da_event_valid(is_leader, sig_ok)
               THEN Append(da_bus, handle_da_event_msg(view, payload, namespace_id))
               ELSE da_bus
  /\ driver' = [driver_after_event EXCEPT
                  !.last_event = [kind |-> "DaProposal", is_leader |-> is_leader,
                                  sig_ok |-> sig_ok]]
  /\ UNCHANGED <<namespace_id, reg_vars, tx_bus, qc_bus, bs, gw_vars, env_vars,
                 handled, call_vars, decide_bus, claim, calls>>

\* EventType::QuorumProposal -> handle_qc_event
driver_quorum_proposal(view, payload, is_leader, sig_ok) ==
  /\ driver_took_event
  /\ qc_bus' = IF handle_qc_event_valid(is_leader, sig_ok)
               THEN Append(qc_bus, handle_qc_event_msg(view, payload))
               ELSE qc_bus
  /\ driver' = [driver_after_event EXCEPT
                  !.last_event = [kind |-> "QuorumProposal",
                                  is_leader |-> is_leader, sig_ok |-> sig_ok]]
  /\ UNCHANGED <<namespace_id, reg_vars, tx_bus, da_bus, bs, gw_vars, env_vars,
                 handled, call_vars, decide_bus, claim, calls>>

\* what the solver does with a bid
SolverOutcomes == {"accepted", "unreachable", "rejected", "unserialisable"}

\* handle_view_finished: Ok when the solver accepted the bid, Err when the
\* connection to the solver or the POST failed; `body_json(&bid_tx).unwrap()`
\* panics when the bid cannot be serialised
handle_view_finished(outcome) ==
  CASE outcome = "accepted" -> "Ok"
    [] outcome = "unserialisable" -> "Panic"
    [] OTHER -> "Err"

\* EventType::ViewFinished: `handle_view_finished(..).await?` returns the
\* error from the service function
driver_view_finished_running(result) == result = "Ok"

\* EventType::ViewFinished
driver_view_finished(outcome) ==
  /\ driver_took_event
  /\ LET result == handle_view_finished(outcome)
     IN driver' = IF result = "Panic"
                  THEN driver_panic
                  ELSE [driver_after_event EXCEPT
                          !.bids = @ + 1,
                          !.bid_failed = @ \/ result = "Err",
                          !.running = driver_view_finished_running(result)]
  /\ UNCHANGED <<namespace_id, reg_vars, bus_vars, bs, gw_vars, env_vars,
                 handled, call_vars, decide_bus, claim, calls>>

\* what an attempt to connect to the events service meets: the connection,
\* the subscription to the events or the request of the startup info fails
EventsServiceOutcomes ==
  {"connected", "no_connection", "no_subscription", "no_startup_info"}

\* connect_to_events_service: Some(..) when the three steps succeeded
connect_to_events_service(outcome) == outcome = "connected"

\* the stream returned None ("Event stream ended"): one attempt to reconnect;
\* `if connected.is_none() { return Err(..) }`
driver_stream_ended_running(connected) == connected

driver_stream_ended(outcome) ==
  /\ driver_took_event
  /\ LET connected == connect_to_events_service(outcome)
     IN driver' = [driver_after_event EXCEPT
                     !.reconnects = @ + 1,
                     !.reconnect_failed = @ \/ ~ connected,
                     !.running = driver_stream_ended_running(connected)]
  /\ UNCHANGED <<namespace_id, reg_vars, bus_vars, bs, gw_vars, env_vars,
                 handled, call_vars, decide_bus, claim, calls>>

\* the leaf chains of a Decide: empty, or with a first leaf of some view
DecideChains == {<<>>} \cup {<<v>> : v \in Views}
\* the proposals of the stream: those of the first view after genesis
DriverPayloads == {<<>>, <<1>>}

DriverNext ==
  \/ \E txns \in SubmitChoices : driver_transactions(txns)
  \/ \E leaf_chain \in DecideChains : driver_decide(leaf_chain)
  \/ \E payload \in DriverPayloads, is_leader \in BOOLEAN, sig_ok \in BOOLEAN :
       driver_da_proposal(GenesisView + 1, payload, is_leader, sig_ok)
  \/ \E payload \in DriverPayloads, is_leader \in BOOLEAN, sig_ok \in BOOLEAN :
       driver_quorum_proposal(GenesisView + 1, payload, is_leader, sig_ok)
  \/ \E outcome \in SolverOutcomes : driver_view_finished(outcome)
  \/ \E outcome \in EventsServiceOutcomes : driver_stream_ended(outcome)
  \/ \E i \in 1 .. Len(bs) : bs_recv_da(i)
  \/ \E i \in 1 .. Len(bs) : bs_recv_qc(i)
  \/ \E i \in 1 .. Len(bs) : bs_recv_decide(i)

\* every builder state that runs reads its buses
DriverFairness ==
  \A i \in 1 .. (MaxEvents + 1) :
    /\ WF_vars(i \in 1 .. Len(bs) /\ bs_recv_da(i))
    /\ WF_vars(i \in 1 .. Len(bs) /\ bs_recv_qc(i))
    /\ WF_vars(bs_recv_decide(i))

DriverSpec == RegInit /\ [][DriverNext]_vars /\ DriverFairness

(***************************************************************************)
(* Specification of the two caches of built blocks: builder states         *)
(* register and call update_global_state with blocks of any payload and    *)
(* any offered fee, also more than once for one builder hash and view.     *)
(***************************************************************************)

BuiltPayloads == {<<>>, <<1>>}
OfferedFees == {0, 1}

\* the BuildBlockInfo of a block of `payload` offered for `fee`
built_block_info(payload, fee) ==
  [bs_build_block(payload) EXCEPT !.offered_fee = fee]

\* builder state i records a block
built_record(i, payload, fee) ==
  /\ n_built < MaxRecords
  /\ n_built' = n_built + 1
  /\ LET info == built_block_info(payload, fee)
     IN /\ update_global_state(info, VidOf(bs[i].anchor), ViewOf(bs[i].anchor),
                               bs_response(info))
        /\ last_call' = [NoCall EXCEPT !.op = "record_built",
                                       !.vid = VidOf(bs[i].anchor),
                                       !.view = ViewOf(bs[i].anchor),
                                       !.id = i,
                                       !.info = bs_response(info)]
  /\ UNCHANGED <<reg_unchanged, bs, n_regs>>

\* a builder state of the latest view or of the view after it registers
\* itself, before the first block is recorded
built_register(vid, view) ==
  /\ n_built = 0
  /\ view >= ViewOf(highest_view_num_builder_id)
  /\ reg_register(vid, view)

BuiltNext ==
  \/ \E vid \in RegVids, view \in RegViews : built_register(vid, view)
  \/ \E i \in 1 .. Len(bs), payload \in BuiltPayloads, fee \in OfferedFees :
       built_record(i, payload, fee)

BuiltSpec == RegInit /\ [][BuiltNext]_vars

(***************************************************************************)
(* Specification of the collection after a Decide: builder states register,*)
(* the event driver broadcasts Decides, the builder states read them, and  *)
(* the registry collects at the view of the last Decide broadcast.         *)
(***************************************************************************)

\* the view of the last Decide broadcast
LastDecideView == decide_bus[Len(decide_bus)].latest_decide_view_number

\* the collect that a Decide triggers: remove_handles at the decided view
gc_collect ==
  /\ decide_bus # <<>>
  /\ reg_collect(LastDecideView)

\* a successor registers: its view is above those registered before it
gc_register(vid, view) ==
  /\ view > ViewOf(highest_view_num_builder_id)
  /\ reg_register(vid, view)

GcNext ==
  \/ \E vid \in RegVids, view \in RegViews : gc_register(vid, view)
  \/ \E view \in Views : driver_decide(<<view>>)
  \/ \E i \in 1 .. Len(bs) : bs_recv_decide(i)
  \/ gc_collect

GcSpec == RegInit /\ [][GcNext]_vars

(***************************************************************************)
(* Specification of the transaction bus: clients submit lists of           *)
(* transactions, of any namespace and with repetitions, to a builder with  *)
(* or without a namespace; the event driver broadcasts DA proposals of the *)
(* first view; the bootstrap state reads the two buses.  The tx channel is *)
(* open, or closed, and then every broadcast into it fails and is logged.  *)
(***************************************************************************)

TxLists == UNION {[1 .. n -> Txs] : n \in 0 .. MaxTxns}

\* ProxyGlobalState::submit_txns -> GlobalState::submit_client_txns
tx_submit(txns, open) ==
  /\ n_submits < MaxSubmits
  /\ n_submits' = n_submits + 1
  /\ IF open
     THEN handle_received_txns(txns, "External", namespace_id,
                               ViewOf(current_builder_state_id))
     ELSE UNCHANGED tx_bus
  /\ last_call' = [NoCall EXCEPT
                     !.op = "submit_txns", !.txns = txns, !.open = open,
                     !.ret = handle_received_txns_results(txns, namespace_id)]
  /\ UNCHANGED <<namespace_id, reg_vars, da_bus, qc_bus, bs, gw_vars,
                 current_builder_state_id, phase, attempt, offer, proposal,
                 handled, n_regs, n_built, ext_vars, calls>>

\* a DA proposal of the first view, from its leader
tx_da_proposal(payload) ==
  driver_da_proposal(GenesisView + 1, payload, TRUE, TRUE)

TxNext ==
  \/ \E txns \in TxLists, open \in BOOLEAN : tx_submit(txns, open)
  \/ \E payload \in DriverPayloads : tx_da_proposal(payload)
  \/ \E i \in 1 .. Len(bs) : bs_recv_tx(i)
  \/ \E i \in 1 .. Len(bs) : bs_recv_da(i)

TxSpec == Init /\ [][TxNext]_vars

(***************************************************************************)
(* Specification of the routing of one available_blocks call: builder      *)
(* states register before and during the call, one Decide is broadcast and *)
(* ends the event loops of the states at or below its view (their senders  *)
(* stay in the registry), and a client makes one call for any key.         *)
(***************************************************************************)

\* a builder state registers itself: before the call the child of the latest
\* view, while the call polls the state of the key of the call
route_register(vid, view) ==
  /\ n_regs < MaxRegs
  /\ \/ gw.pc = "idle" /\ view > ViewOf(highest_view_num_builder_id)
     \/ gw.pc = "poll" /\ vid = gw.parent /\ view = gw.view
  /\ reg_register(vid, view)

\* the one Decide of the run
route_decide(leaf_chain) ==
  /\ decide_bus = <<>>
  /\ gw.pc = "idle"
  /\ driver_decide(leaf_chain)

\* the client's call, with a valid signature
route_available_blocks(parent, view) ==
  gw_available_blocks(parent, view, TRUE)

\* a builder state reads the Decide before the call starts
route_recv_decide(i) ==
  /\ gw.pc = "idle"
  /\ bs_recv_decide(i)

RouteNext ==
  \/ \E vid \in RegVids, view \in RegViews : route_register(vid, view)
  \/ \E leaf_chain \in DecideChains : route_decide(leaf_chain)
  \/ \E i \in 1 .. Len(bs) : route_recv_decide(i)
  \/ \E parent \in RegVids, view \in Views : route_available_blocks(parent, view)
  \/ available_blocks_poll
  \/ available_blocks_fallback
  \/ \E i \in 1 .. Len(bs) : bs_recv_req(i)
  \/ available_blocks_deadline

RouteSpec == RegInit /\ [][RouteNext]_vars

(***************************************************************************)
(* Specification of the life of the builder states: the event driver takes *)
(* transactions, the DA and quorum proposals of the first view (in any     *)
(* order, matching or not, also repeated) and Decides of the first views,  *)
(* the builder states read their buses and spawn, and a client makes one   *)
(* available_blocks call for a key of the first views.                     *)
(***************************************************************************)

LifeTxns == {<<1>>, <<2, 1>>}
LifeChains == {<<GenesisView>>, <<GenesisView + 1>>}
LifeViews == {GenesisView, GenesisView + 1}

life_da_proposal(payload) ==
  driver_da_proposal(GenesisView + 1, payload, TRUE, TRUE)

life_quorum_proposal(payload) ==
  driver_quorum_proposal(GenesisView + 1, payload, TRUE, TRUE)

life_available_blocks(parent, view) ==
  gw_available_blocks(parent, view, TRUE)

LifeNext ==
  \/ \E txns \in LifeTxns : driver_transactions(txns)
  \/ \E payload \in DriverPayloads : life_da_proposal(payload)
  \/ \E payload \in DriverPayloads : life_quorum_proposal(payload)
  \/ \E leaf_chain \in LifeChains : driver_decide(leaf_chain)
  \/ \E i \in 1 .. Len(bs) : bs_recv_tx(i)
  \/ \E i \in 1 .. Len(bs) : bs_recv_da(i)
  \/ \E i \in 1 .. Len(bs) : bs_recv_qc(i)
  \/ \E i \in 1 .. Len(bs) : bs_recv_decide(i)
  \/ \E parent \in RegVids, view \in LifeViews : life_available_blocks(parent, view)
  \/ available_blocks_poll
  \/ available_blocks_fallback
  \/ \E i \in 1 .. Len(bs) : bs_recv_req(i)
  \/ available_blocks_reply
  \/ available_blocks_deadline

LifeSpec == RegInit /\ [][LifeNext]_vars

(***************************************************************************)
(* Properties.                                                             *)
(***************************************************************************)

\* the builder state that handled the request of the current call
HandledState == bs[handled.sid]

\* the current call is one of a consensus round and has returned
RoundCallDone == gw.pc = "done" /\ ~ gw.stray

\* the request of the current call was for a view inside the empty-block
\* window opened by the last non-empty answer known to the handling state
InsideWindow ==
  /\ handled.sid # NoBuilderState
  /\ handled.nonempty_before # NoView
  /\ handled.nonempty_before < gw.view
  /\ gw.view <= handled.nonempty_before + ALLOW_EMPTY_BLOCK_PERIOD

\* no transaction arrived after the round of the last non-empty answer
NoNewTx ==
  \A i \in 1 .. Len(tx_bus) : tx_bus[i].time_in <= handled.nonempty_before

\* C1: after a request at view V was answered with a non-empty block, a
\* request of a consensus round for the correct parent at a view V_req with
\* V < V_req <= V + ALLOW_EMPTY_BLOCK_PERIOD is answered at the first attempt,
\* and with a block of size 0 when no transaction arrived since.
C1_EmptyBlockWindowOpens ==
  RoundCallDone =>
    /\ handled.sid # NoBuilderState
    /\ InsideWindow =>
         /\ attempt = 1
         /\ handled.replied
         /\ gw.result.kind = "ok"
         /\ NoNewTx => gw.result.blocks[1].block_size = 0

\* the request was accepted by a state that has no unclaimed transaction, at
\* a view past allow_empty_block_until
WindowClosed ==
  /\ handled.sid # NoBuilderState
  /\ handled.accepted
  /\ ~ handled.have_tx
  /\ gw.view > handled.allow_before

\* C2: a request accepted by a state without unclaimed transaction at a view
\* past allow_empty_block_until gets nothing on its reply channel and the
\* call ends in NoBlocksAvailable, at each of the retries; and a build of an
\* empty block leaves allow_empty_block_until as it was.
C2_EmptyBlockWindowCloses ==
  /\ (gw.pc \in {"wait", "done"} /\ WindowClosed) =>
       /\ ~ handled.replied
       /\ response_channel = <<>>
       /\ handled.allow_after = handled.allow_before
       /\ gw.pc = "done" => gw.result.kind = "NoBlocksAvailable"
  /\ (handled.sid # NoBuilderState /\ handled.block_size = 0) =>
       handled.allow_after = handled.allow_before

\* C2 witness: the last retry of a round fails past a window that a
\* non-empty build had opened.
C2_Witness ==
  /\ RoundCallDone
  /\ WindowClosed
  /\ handled.allow_before # NoView
  /\ attempt = TEST_NUM_CONSENSUS_RETRIES
  /\ gw.result.kind = "NoBlocksAvailable"

\* C3: while no transaction was submitted, every available_blocks call, at
\* every view from genesis on, ends in NoBlocksAvailable, and no block is
\* ever built.
C3_FreshBuilderOffersNothing ==
  n_submits = 0 =>
    /\ gw.pc = "done" => gw.result.kind = "NoBlocksAvailable"
    /\ response_channel = <<>>
    /\ DOMAIN block_hash_to_block = {}

\* C3 witness: the last retry of a round after genesis fails on a builder
\* that never received a transaction.
C3_Witness ==
  /\ n_submits = 0
  /\ RoundCallDone
  /\ gw.view >= 2
  /\ attempt = TEST_NUM_CONSENSUS_RETRIES
  /\ gw.result.kind = "NoBlocksAvailable"

\* a transaction never seen before arrived on the tx bus during the round
\* of the current call, before the call
NewTxThisRound ==
  \E i \in 1 .. Len(tx_bus) :
    /\ tx_bus[i].time_in = gw.view
    /\ tx_bus[i].source = "External"
    /\ \A j \in 1 .. (i - 1) : tx_bus[j].commit # tx_bus[i].commit

HandledRequest == RequestMessage(gw.parent, gw.view)

\* C5: a reply reaches the gateway only from a state whose anchor has the
\* requested parent and a view <= the requested one; a state that does not
\* accept the request sends nothing, and the call then ends in the timeout
\* path, which returns only a block cached under the requested key.
C5_NoReplyOnMismatch ==
  /\ (gw.pc \in {"wait", "done"} /\ handled.sid # NoBuilderState) =>
       /\ handled.replied =>
            /\ VidOf(HandledState.anchor) = gw.parent
            /\ ViewOf(HandledState.anchor) <= gw.view
       /\ ~ bs_accepts(HandledState, HandledRequest) =>
            /\ ~ handled.replied
            /\ response_channel = <<>>
            /\ gw.pc = "done" =>
                 gw.result =
                   IF <<gw.parent, gw.view>> \in
                        DOMAIN builder_state_to_last_built_block
                   THEN [kind |-> "ok",
                         blocks |-> <<available_blocks_info(
                            builder_state_to_last_built_block[
                              <<gw.parent, gw.view>>])>>]
                   ELSE [kind |-> "NoBlocksAvailable", blocks |-> <<>>]
  /\ (gw.pc = "done" /\ gw.result.kind = "ok") =>
       \/ handled.sid # NoBuilderState /\ handled.replied
       \/ <<gw.parent, gw.view>> \in DOMAIN builder_state_to_last_built_block

\* C5 witness: a call routed to the highest-view state, which holds a
\* transaction and is anchored at the requested parent but at a later view,
\* gets no reply and ends in NoBlocksAvailable.
C5_Witness ==
  /\ gw.pc = "done"
  /\ gw.via = "fallback"
  /\ handled.sid # NoBuilderState
  /\ VidOf(HandledState.anchor) = gw.parent
  /\ ViewOf(HandledState.anchor) > gw.view
  /\ HandledState.mempool # <<>>
  /\ ~ handled.replied
  /\ gw.result.kind = "NoBlocksAvailable"

\* the keys a request may name
RequestKeys == RegVids \X Views

\* the sender a lookup of `key` returns in the current registry
ChannelFor(key) ==
  get_channel_for_matching_builder_or_highest_view_buider(
    spawned_builder_states, highest_view_num_builder_id, key)

\* C6: after any sequence of register and collect calls, the lookup of any
\* key returns the sender registered under the key when the key is
\* registered and the sender of `highest` otherwise, and never fails.
C6_ChannelForNeverFails ==
  \A key \in RequestKeys :
    /\ ChannelFor(key) # NoBuilderState
    /\ highest_view_num_builder_id \in DOMAIN spawned_builder_states
    /\ ChannelFor(key) =
         IF key \in DOMAIN spawned_builder_states
         THEN spawned_builder_states[key]
         ELSE spawned_builder_states[highest_view_num_builder_id]

\* C6 witness: after two registrations and a collect that removed the
\* bootstrap state and one of the registered states, the lookup of the
\* removed key returns the sender of `highest`.
C6_Witness ==
  /\ last_call.op = "collect"
  /\ n_regs = 2
  /\ DOMAIN spawned_builder_states = {highest_view_num_builder_id}
  /\ \E i \in 1 .. Len(bs) :
       /\ bs[i].anchor \notin DOMAIN spawned_builder_states
       /\ bs[i].anchor # BootstrapId
       /\ ChannelFor(bs[i].anchor) =
            spawned_builder_states[highest_view_num_builder_id]

\* C7: every registered key has a view >= last_garbage_collected_view_num.
C7_RegisteredNotBelowGc ==
  \A k \in DOMAIN spawned_builder_states :
    ViewOf(k) >= last_garbage_collected_view_num

\* C8: a register call for a view <= last_garbage_collected_view_num, other
\* than the bootstrap state's, leaves no entry under its key.
C8_NoResurrection ==
  (/\ last_call.op = "register"
   /\ last_call.gc >= last_call.view
   /\ <<last_call.vid, last_call.view>> # BootstrapId)
    => <<last_call.vid, last_call.view>> \notin DOMAIN spawned_builder_states

\* C9: no two builder states whose event loops run have the same anchor.
C9_UniqueAnchor ==
  \A i, j \in 1 .. Len(bs) :
    (bs[i].live /\ bs[j].live /\ bs[i].anchor = bs[j].anchor) => i = j

\* C10: no registry call decreases the view of `highest`.
C10_MonotoneHighest ==
  [][ViewOf(highest_view_num_builder_id') >= ViewOf(highest_view_num_builder_id)]_vars

\* C10 witness: after a collect, a state is registered below `highest`,
\* which stays above the bootstrap view.
C10_Witness ==
  /\ last_call.op = "register"
  /\ last_call.view < ViewOf(highest_view_num_builder_id)
  /\ last_garbage_collected_view_num > 0
  /\ n_built > 0

\* C11 (P3): every builder state that was registered with a view below
\* min(highest.V, D) when the event driver handled a Decide whose first leaf
\* has view D is eventually removed from spawned_builder_states.
C11_DecideLeadsToCollect ==
  \A k \in RequestKeys :
    (k \in driver.to_collect) ~> (k \notin DOMAIN spawned_builder_states)

\* C20: a failed bid submission on ViewFinished does not stop the event
\* driver.
C20_FailedBidNotFatal ==
  driver.bid_failed => driver.running

\* the step in which an available_blocks call with a valid signature makes
\* its checks
ValidCallStarts == gw.pc = "idle" /\ gw'.pc # "idle" /\ gw'.valid

C13_S6ViewFourAlreadyDecided ==
  (/\ last_call.op = "collect"
   /\ \E k \in DOMAIN builder_state_to_last_built_block : ViewOf(k) = 5
   /\ gw.pc = "done"
   /\ gw.view = 4)
    => gw.result.kind = "ViewAlreadyDecided"

\* the call waited on its reply channel and no reply arrived before the
\* total deadline
DeadlineExpired ==
  /\ gw.pc = "done"
  /\ gw.via # "none"
  /\ ~ (handled.sid # NoBuilderState /\ handled.replied)

\* C14: when no reply arrives before the total deadline, available_blocks
\* returns the response cached in builder_state_to_last_built_block under the
\* key (parent, view) of the call when that key is present, and fails with
\* NoBlocksAvailable otherwise, also when other keys are cached.
C14_TimeoutReturnsCachedKey ==
  DeadlineExpired =>
    IF <<gw.parent, gw.view>> \in DOMAIN builder_state_to_last_built_block
    THEN /\ gw.result.kind = "ok"
         /\ Len(gw.result.blocks) = 1
         /\ LET cached == builder_state_to_last_built_block[<<gw.parent, gw.view>>]
            IN /\ gw.result.blocks[1].block_hash = cached.builder_hash
               /\ gw.result.blocks[1].block_size = cached.block_size
               /\ gw.result.blocks[1].offered_fee = cached.offered_fee
    ELSE /\ gw.result.kind = "NoBlocksAvailable"
         /\ gw.result.blocks = <<>>

\* C14 witness: the state registered under the key of the call handled the
\* request without a reply, and the call returned the block cached under
\* that key.
C14_Witness ==
  /\ DeadlineExpired
  /\ gw.via = "exact"
  /\ handled.sid # NoBuilderState
  /\ gw.view > 0
  /\ gw.result.kind = "ok"
  /\ gw.result.blocks[1].block_size = 1

\* C15: every available_blocks call eventually returns, whatever the builder
\* states do.
C15_CallReturns ==
  (gw.pc \in {"poll", "wait"}) ~> (gw.pc = "done")

\* the pairs (builder commitment, view) that available_blocks calls for the
\* view have returned
Returned ==
  {<<c.result.blocks[1].block_hash, c.view>> :
     c \in {x \in calls : x.result.kind = "ok"}}

\* C16 (P6): while no available_blocks call is in progress, claim_block(BC, V)
\* with a valid signature succeeds if and only if an available_blocks call
\* for view V has returned BC.
C16_ClaimIffReturned ==
  gw.pc = "idle" =>
    \A k \in DOMAIN block_hash_to_block \cup Returned :
      (claim_block(block_hash_to_block, k[1], k[2]).kind = "ok") <=> k \in Returned

\* the step of a claim_block call with a valid signature
ValidClaimStep == claim' # claim /\ claim'.valid

\* C17: claim_block(BC, V) with a valid signature returns the payload and
\* the fee stored in block_hash_to_block under (BC, V) when the key is present
\* and fails with BlockNotFound when it is absent, also when BC is stored
\* under another view; the call leaves the registry unchanged.
C17_ClaimBlockLookup ==
  [][ValidClaimStep =>
      /\ claim'.result.kind \in {"ok", "BlockNotFound"}
      /\ IF <<claim'.block_hash, claim'.view>> \in DOMAIN block_hash_to_block
         THEN LET stored == block_hash_to_block[<<claim'.block_hash, claim'.view>>]
              IN /\ claim'.result.kind = "ok"
                 /\ claim'.result.block_payload = stored.block_payload
                 /\ claim'.result.fee = stored.offered_fee
         ELSE /\ claim'.result.kind = "BlockNotFound"
              /\ claim'.result.block_payload = <<>>
      /\ UNCHANGED <<reg_vars, bs, bus_vars, gw_vars>>]_vars

\* C17 witness: a claim with a valid signature for a block that is stored
\* under another view only has failed with BlockNotFound.
C17_Witness ==
  /\ claim.valid
  /\ claim.result.kind = "BlockNotFound"
  /\ \E k \in DOMAIN block_hash_to_block :
       k[1] = claim.block_hash /\ k[2] # claim.view

\* the step in which an available_blocks call presents a signature that does
\* not validate
InvalidCallStarts == gw.pc = "idle" /\ gw'.pc # "idle" /\ ~ gw'.valid

\* the step of a claim_block call with a signature that does not validate
InvalidClaimStep == claim' # claim /\ ~ claim'.valid

\* C18: available_blocks and claim_block called with a signature that does
\* not validate fail with InvalidSignature before anything else happens: no
\* registry field changes, no request is sent to a builder state, no block
\* data is returned.
C18_InvalidSignatureFirst ==
  /\ [][InvalidCallStarts =>
         /\ gw'.pc = "done"
         /\ gw'.result = [kind |-> "InvalidSignature", blocks |-> <<>>]
         /\ gw'.sent_to = NoBuilderState
         /\ UNCHANGED <<reg_vars, bs>>]_vars
  /\ [][InvalidClaimStep =>
         /\ claim'.result =
              [kind |-> "InvalidSignature", block_payload |-> <<>>, fee |-> 0]
         /\ UNCHANGED <<reg_vars, bs, gw_vars>>]_vars
  /\ [](gw.result.kind = "InvalidSignature" =>
          /\ gw.pc = "done"
          /\ \A i \in 1 .. Len(bs) : bs[i].req = <<>>)

\* C18 witness: a call of available_blocks with a signature that does not
\* validate, for a cached key and a view that is already decided, has failed
\* with InvalidSignature.
C18_Witness ==
  /\ gw.pc = "done"
  /\ ~ gw.valid
  /\ gw.result.kind = "InvalidSignature"
  /\ available_blocks_already_decided(gw.view, last_garbage_collected_view_num,
                                      highest_view_num_builder_id)
  /\ <<gw.parent, gw.view>> \in DOMAIN builder_state_to_last_built_block

\* the calls of available_blocks for the parents of the branches that returned
\* C21: an attempt to reconnect to the events service that fails does not
\* terminate the event driver (the driver goes on to the next attempt).
C21_ReconnectRetried == driver.reconnect_failed => driver.running

\* C22: no event received after startup makes the event driver panic.
C22_NoPanic == ~ driver.panicked

CollectStep == last_call'.op = "collect" /\ last_call' # last_call

\* C24: collect(D) leaves block_hash_to_block and
\* builder_state_to_last_built_block unchanged, and a claim_block with a valid
\* signature for a block that was built before the collect succeeds after it.
C24_CollectKeepsBuilt ==
  /\ [][CollectStep =>
         UNCHANGED <<block_hash_to_block, builder_state_to_last_built_block>>]_vars
  /\ [](\A k \in DOMAIN builder_state_to_last_built_block :
          (/\ last_call.op = "collect"
           /\ claim.valid
           /\ claim.block_hash = builder_state_to_last_built_block[k].builder_hash
           /\ claim.view = ViewOf(k))
            => claim.result.kind = "ok")

\* C24 witness: a block was built at a view below the cutoff of the collect
\* that followed, the state that built it was removed, and the claim of the
\* block succeeded.
C24_Witness ==
  /\ last_call.op = "collect"
  /\ claim.valid
  /\ claim.result.kind = "ok"
  /\ claim.view < last_call.ret
  /\ \A k \in DOMAIN spawned_builder_states : ViewOf(k) > claim.view

\* the builder states on whose request channel the step places a request
RequestPlacedOn ==
  {i \in 1 .. Len(bs) : i <= Len(bs') /\ Len(bs'[i].req) > Len(bs[i].req)}

\* the step in which the call sends its request, or fails to
RouteStep == gw.pc = "poll" /\ gw'.pc = "wait"

\* C25: one available_blocks call places its request on the channel of at
\* most one builder state: of the state registered under (parent, view) when
\* there is one, and of the state of `highest` only when there is none; a
\* broadcast to the exact match that fails places no request anywhere, and
\* the call sends nothing once it waits for the reply.
C25_TwoPhaseRouting ==
  [][LET key == <<gw.parent, gw.view>>
         exact == key \in DOMAIN spawned_builder_states
         target == IF exact
                   THEN spawned_builder_states[key]
                   ELSE spawned_builder_states[highest_view_num_builder_id]
     IN /\ RequestPlacedOn # {} => RouteStep
        /\ RouteStep =>
             /\ RequestPlacedOn = IF bs[target].live THEN {target} ELSE {}
             /\ bs[target].live =>
                  bs'[target].req =
                    Append(bs[target].req,
                           [requested_vid_commitment |-> gw.parent,
                            requested_view_number |-> gw.view])
             /\ gw'.sent_to = target
             /\ gw'.via = IF exact THEN "exact" ELSE "fallback"
        /\ gw.pc = "wait" => gw'.pc \in {"wait", "done"}]_vars

\* C25 witness: the key of the call was registered while the call polled,
\* and the request went to that state and not to the state of `highest`.
C25_Witness ==
  /\ gw.pc = "wait"
  /\ gw.via = "exact"
  /\ last_call.op = "register"
  /\ last_call.vid = gw.parent /\ last_call.view = gw.view
  /\ n_regs = 2
  /\ spawned_builder_states[<<gw.parent, gw.view>>] = gw.sent_to
  /\ gw.sent_to # spawned_builder_states[highest_view_num_builder_id]
  /\ bs[gw.sent_to].req # <<>>

\* C26: update_global_state inserts into block_hash_to_block only when the
\* key (builder hash, view) is absent, leaving an existing entry (payload and
\* fee) as it is, and always sets builder_state_to_last_built_block under the
\* anchor of the state to the latest response.
C26_RecordBuilt ==
  [][(last_call'.op = "record_built" /\ n_built' = n_built + 1) =>
       LET key == <<last_call'.info.builder_hash, last_call'.view>>
           anchor == <<last_call'.vid, last_call'.view>>
       IN /\ DOMAIN block_hash_to_block' = DOMAIN block_hash_to_block \cup {key}
          /\ \A k \in DOMAIN block_hash_to_block :
               block_hash_to_block'[k] = block_hash_to_block[k]
          /\ key \notin DOMAIN block_hash_to_block =>
               block_hash_to_block'[key].offered_fee = last_call'.info.offered_fee
          /\ DOMAIN builder_state_to_last_built_block' =
               DOMAIN builder_state_to_last_built_block \cup {anchor}
          /\ builder_state_to_last_built_block'[anchor] = last_call'.info
          /\ \A k \in DOMAIN builder_state_to_last_built_block \ {anchor} :
               builder_state_to_last_built_block'[k] =
                 builder_state_to_last_built_block[k]]_vars

\* C26 witness: a state recorded the block of a builder hash and a view for
\* the second time with another fee: block_hash_to_block holds the first
\* fee, builder_state_to_last_built_block the response with the second.
C26_Witness ==
  /\ last_call.op = "record_built"
  /\ n_built = 2
  /\ LET key == <<last_call.info.builder_hash, last_call.view>>
         anchor == <<last_call.vid, last_call.view>>
     IN /\ block_hash_to_block[key].offered_fee # last_call.info.offered_fee
        /\ builder_state_to_last_built_block[anchor] = last_call.info
        /\ builder_state_to_last_built_block[anchor].offered_fee
             # block_hash_to_block[key].offered_fee

\* C27: a builder state that reads Decide(D) with D >= anchor.V terminates,
\* and a terminated state changes no more: it takes no request, sends no
\* response and spawns no child; a Decide(D) with D < anchor.V leaves the
\* state as it was (only its receiver moved on).
C27_DecideTerminates ==
  [][/\ \A i \in 1 .. Len(bs) :
          /\ ~ bs[i].live => bs'[i] = bs[i]
          /\ (bs[i].live /\ bs'[i].decide_pos > bs[i].decide_pos) =>
               LET D == decide_bus[bs[i].decide_pos + 1].latest_decide_view_number
               IN IF D >= ViewOf(bs[i].anchor)
                  THEN ~ bs'[i].live
                  ELSE bs'[i] = [bs[i] EXCEPT !.decide_pos = @ + 1]
     /\ Len(response_channel') > Len(response_channel) =>
          \E i \in 1 .. Len(bs) : bs[i].live /\ bs'[i].req # bs[i].req
     /\ Len(bs') > Len(bs) =>
          \E i \in 1 .. Len(bs) : bs[i].live /\ bs'[i].spawned # bs[i].spawned
    ]_vars

\* C27 witness: the bootstrap state terminated on a Decide with a request in
\* its channel, and the call ended without a reply; the state it had spawned
\* read the Decide of the view below its own and runs on with its proposals.
C27_Witness ==
  /\ ~ bs[1].live
  /\ bs[1].req # <<>>
  /\ gw.pc = "done"
  /\ gw.result.kind = "NoBlocksAvailable"
  /\ \E j \in 2 .. Len(bs) :
       /\ bs[j].live
       /\ bs[j].decide_pos = Len(decide_bus)
       /\ decide_bus # <<>>
       /\ DOMAIN bs[j].seen_da # {}

\* the step in which a builder state spawns a successor
SpawnStep == Len(bs') > Len(bs)

C29_ChildOfSpawn ==
  [][SpawnStep =>
       \E i \in 1 .. Len(bs) :
         LET child == bs'[Len(bs')]
             V == ViewOf(bs[i].anchor) + 1
         IN /\ bs'[i] # bs[i]
            /\ child.anchor = <<bs'[i].seen_qc[V].payload_commitment, V>>
            /\ child.anchor \in DOMAIN spawned_builder_states'
            /\ spawned_builder_states'[child.anchor] = Len(bs')
            /\ child.live
            /\ child.mempool =
                 SelectSeq(bs[i].mempool,
                           LAMBDA t : t \notin bs'[i].seen_da[V].txn_commitments)
            /\ bs'[i].live
            /\ bs'[i].mempool = bs[i].mempool
            /\ bs[i].anchor \in DOMAIN spawned_builder_states
            /\ bs[i].anchor \in DOMAIN spawned_builder_states'
            /\ spawned_builder_states'[bs[i].anchor] =
                 spawned_builder_states[bs[i].anchor]]_vars

\* C29 witness: the bootstrap state held two transactions, the DA proposal of
\* view 1 carried the second of them, and the successor started with the
\* first alone.
C29_Witness ==
  /\ Len(bs) = 2
  /\ bs[1].mempool = <<2, 1>>
  /\ bs[2].mempool = <<2>>
  /\ bs[2].anchor = <<VidCommit(<<1>>), GenesisView + 1>>
  /\ spawned_builder_states[bs[2].anchor] = 2
  /\ spawned_builder_states[BootstrapId] = 1
  /\ bs[1].live

\* C30: the gateway holds no read guard on the global state while it is
\* suspended in a channel broadcast.
C30_NoGuardAcrossAwait ==
  ~ (available_blocks_awaits_broadcast /\ available_blocks_read_guard)

\* the step in which the driver handled a proposal event of `kind`
ProposalEvent(kind) ==
  driver'.events = driver.events + 1 /\ driver'.last_event.kind = kind

\* C31: a DA proposal or a quorum proposal is placed on its bus exactly when
\* its sender is the leader of its view and its signature validates; a
\* proposal that fails a check is dropped, and both buses stay as they were.
C31_ProposalsValidated ==
  [][/\ Len(da_bus') > Len(da_bus) =>
          /\ ProposalEvent("DaProposal")
          /\ driver'.last_event.is_leader /\ driver'.last_event.sig_ok
          /\ Len(da_bus') = Len(da_bus) + 1
     /\ Len(qc_bus') > Len(qc_bus) =>
          /\ ProposalEvent("QuorumProposal")
          /\ driver'.last_event.is_leader /\ driver'.last_event.sig_ok
          /\ Len(qc_bus') = Len(qc_bus) + 1
     /\ (/\ ProposalEvent("DaProposal") \/ ProposalEvent("QuorumProposal")
         /\ ~ (driver'.last_event.is_leader /\ driver'.last_event.sig_ok)) =>
          UNCHANGED <<da_bus, qc_bus>>
     /\ (/\ ProposalEvent("DaProposal")
         /\ driver'.last_event.is_leader /\ driver'.last_event.sig_ok) =>
          Len(da_bus') = Len(da_bus) + 1
     /\ (/\ ProposalEvent("QuorumProposal")
         /\ driver'.last_event.is_leader /\ driver'.last_event.sig_ok) =>
          Len(qc_bus') = Len(qc_bus) + 1
    ]_vars

\* C31 witness: a quorum proposal was broadcast, and the DA proposal of the
\* leader whose signature did not validate has just been dropped.
C31_Witness ==
  /\ driver.last_event = [kind |-> "DaProposal", is_leader |-> TRUE,
                          sig_ok |-> FALSE]
  /\ da_bus = <<>>
  /\ Len(qc_bus) = 1
  /\ driver.events = 2

\* the step of a submit_txns call
SubmitStep == last_call'.op = "submit_txns" /\ n_submits' = n_submits + 1

\* the transactions of `txns` that pass the namespace filter of the builder
Passing(txns) ==
  SelectSeq(txns, LAMBDA t : namespace_id = NoNamespace
                             \/ NamespaceOf(t) = namespace_id)

\* C32: submit_txns returns Ok with the commitments of the transactions that
\* pass the namespace filter (all without a namespace), in input order, also
\* when the broadcasts fail; when the tx channel is open it appends exactly
\* these transactions to the bus, each once per occurrence, in input order
\* and with the source External.
C32_SubmitTxns ==
  [][SubmitStep =>
       LET passing == Passing(last_call'.txns)
       IN /\ last_call'.ret = [kind |-> "Ok", commits |-> passing]
          /\ Len(tx_bus') >= Len(tx_bus)
          /\ \A k \in 1 .. Len(tx_bus) : tx_bus'[k] = tx_bus[k]
          /\ last_call'.open =>
               /\ Len(tx_bus') = Len(tx_bus) + Len(passing)
               /\ \A k \in 1 .. Len(passing) :
                    /\ tx_bus'[Len(tx_bus) + k].commit = passing[k]
                    /\ tx_bus'[Len(tx_bus) + k].source = "External"]_vars

\* C32 witness: a builder with the namespace ns1 was given a transaction of
\* ns2 followed by one of ns1; the bus and the result hold the second only.
C32_Witness ==
  /\ last_call.op = "submit_txns"
  /\ last_call.open
  /\ namespace_id = "ns1"
  /\ last_call.txns = <<2, 1>>
  /\ last_call.ret.commits = <<1>>
  /\ Len(tx_bus) = 1
  /\ tx_bus[1].commit = 1

\* no commitment occurs twice in the sequence
NoDuplicates(seq) ==
  \A j, k \in 1 .. Len(seq) : seq[j] = seq[k] => j = k

\* the transactions that the seen DA proposals of the views above the anchor's
\* of builder state `s` include
ClaimedAboveAnchor(s) ==
  SeenDaTxns(s, {v \in DOMAIN s.seen_da : v > ViewOf(s.anchor)})

\* C33 as stated: in every state the mempool of a builder state holds no
\* commitment twice and no transaction that a seen DA proposal of a view above
\* its anchor's includes.
C33_MempoolInvariant ==
  \A i \in 1 .. Len(bs) :
    /\ NoDuplicates(bs[i].mempool)
    /\ SeqToSet(bs[i].mempool) \cap ClaimedAboveAnchor(bs[i]) = {}

\* builder state i reads one transaction from the tx bus in this step
RecvTxStep(i) ==
  /\ i \in 1 .. Len(bs)
  /\ Len(bs') = Len(bs)
  /\ bs'[i].tx_pos = bs[i].tx_pos + 1

\* C33 (amended): no mempool holds a commitment twice, and a builder state
\* that reads a transaction leaves its mempool unchanged when the transaction
\* is already there or is included by a DA proposal it has seen for a view
\* above its anchor's, and appends it at the end otherwise; the DA proposal
\* test is made on receipt of the transaction only.
C33_MempoolOnReceipt ==
  /\ [](\A i \in 1 .. Len(bs) : NoDuplicates(bs[i].mempool))
  /\ [][\A i \in 1 .. Len(bs) :
          RecvTxStep(i) =>
            LET tx == tx_bus[bs[i].tx_pos + 1].commit
            IN IF \/ tx \in SeqToSet(bs[i].mempool)
                  \/ tx \in ClaimedAboveAnchor(bs[i])
               THEN bs'[i].mempool = bs[i].mempool
               ELSE bs'[i].mempool = Append(bs[i].mempool, tx)]_vars

\* C33 witness: the bootstrap state had seen the DA proposal of view 1 that
\* includes transaction 1 and then read transactions 1 and 2 from the bus;
\* its mempool holds transaction 2 only.
C33_Witness ==
  /\ namespace_id = NoNamespace
  /\ Len(tx_bus) = 2
  /\ tx_bus[1].commit = 1
  /\ tx_bus[2].commit = 2
  /\ bs[1].tx_pos = 2
  /\ bs[1].mempool = <<2>>
  /\ 1 \in ClaimedAboveAnchor(bs[1])

\* builder state i has a DA proposal and a quorum proposal waiting on its
\* buses that are of the same view and carry the same builder commitment
PendingPair(i) ==
  /\ Scheduled(i)
  /\ bs[i].da_pos < Len(da_bus)
  /\ bs[i].qc_pos < Len(qc_bus)
  /\ da_bus[bs[i].da_pos + 1].view_number = qc_bus[bs[i].qc_pos + 1].view_number
  /\ da_bus[bs[i].da_pos + 1].builder_commitment
       = qc_bus[bs[i].qc_pos + 1].builder_commitment

\* the builder states that result when state i reads the waiting DA proposal
\* and then the waiting quorum proposal: the state itself, then the successors
DaThenQc(i) ==
  LET da == da_bus[bs[i].da_pos + 1]
      qc == qc_bus[bs[i].qc_pos + 1]
      first == bs_proposal_outcome(bs_store_da(bs[i], da), da.view_number)
      second == bs_proposal_outcome(bs_store_qc(first[1], qc), qc.view_number)
  IN <<second[1]>> \o Tail(first) \o Tail(second)

\* the same when it reads the quorum proposal first
QcThenDa(i) ==
  LET da == da_bus[bs[i].da_pos + 1]
      qc == qc_bus[bs[i].qc_pos + 1]
      first == bs_proposal_outcome(bs_store_qc(bs[i], qc), qc.view_number)
      second == bs_proposal_outcome(bs_store_da(first[1], da), da.view_number)
  IN <<second[1]>> \o Tail(first) \o Tail(second)

\* the anchors and mempools of a sequence of builder states
AnchorsAndMempools(states) ==
  {<<states[k].anchor, states[k].mempool>> : k \in 1 .. Len(states)}

\* C34: a builder state that has a DA proposal and a quorum proposal of one
\* view with the same builder commitment waiting ends with the same stored
\* proposals and the same record of spawned pairs, and yields the same number
\* of successors with the same anchors and initial mempools, whether it reads
\* the DA proposal first or the quorum proposal first.
C34_OrderIndependent ==
  \A i \in 1 .. Len(bs) :
    PendingPair(i) =>
      /\ Len(DaThenQc(i)) = Len(QcThenDa(i))
      /\ AnchorsAndMempools(DaThenQc(i)) = AnchorsAndMempools(QcThenDa(i))
      /\ DaThenQc(i)[1].seen_da = QcThenDa(i)[1].seen_da
      /\ DaThenQc(i)[1].seen_qc = QcThenDa(i)[1].seen_qc
      /\ DaThenQc(i)[1].spawned = QcThenDa(i)[1].spawned

\* C34 witness: the bootstrap state, holding transactions 2 and 1, has the
\* matching DA and quorum proposal of view 1 with payload [1] waiting; either
\* order yields one successor, anchored at view 1 with the mempool [2].
C34_Witness ==
  /\ PendingPair(1)
  /\ bs[1].mempool = <<2, 1>>
  /\ bs[1].seen_da = <<>>
  /\ bs[1].seen_qc = <<>>
  /\ Len(DaThenQc(1)) = 2
  /\ DaThenQc(1)[2].mempool = <<2>>
  /\ ViewOf(QcThenDa(1)[2].anchor) = GenesisView + 1

\* every builder state has read every Decide broadcast so far
DecidesRead ==
  \A i \in 1 .. Len(bs) : bs[i].live => bs[i].decide_pos = Len(decide_bus)

\* C35: once the last Decide has been read by the builder states and the
\* registry has collected at its view, every key of the registry, the highest
\* one included, refers to a builder state that has not terminated.
C35_RegisteredLive ==
  (/\ decide_bus # <<>>
   /\ DecidesRead
   /\ last_call.op = "collect"
   /\ last_call.view = LastDecideView)
  => /\ highest_view_num_builder_id \in DOMAIN spawned_builder_states
     /\ \A k \in DOMAIN spawned_builder_states :
          bs[spawned_builder_states[k]].live

\* the step of a register call at the view of `highest` for another parent
TieStep ==
  /\ last_call'.op = "register"
  /\ n_regs' = n_regs + 1
  /\ last_call'.view = ViewOf(highest_view_num_builder_id)
  /\ last_call'.vid # VidOf(highest_view_num_builder_id)

\* C36: in every state of the registry the key `highest` is registered and no
\* registered key has a view above that of `highest`; a register call at the
\* view of `highest` for another parent leaves `highest` as it was.
C36_HighestIsMax ==
  /\ [](/\ highest_view_num_builder_id \in DOMAIN spawned_builder_states
        /\ \A k \in DOMAIN spawned_builder_states :
             ViewOf(k) <= ViewOf(highest_view_num_builder_id))
  /\ [][TieStep => highest_view_num_builder_id' = highest_view_num_builder_id]_vars

\* C36 witness: after a collect that removed the bootstrap state, a state was
\* registered at the view of `highest` for another parent; both are
\* registered and `highest` is still the first.
C36_Witness ==
  /\ last_call.op = "register"
  /\ last_call.view = ViewOf(highest_view_num_builder_id)
  /\ last_call.vid # VidOf(highest_view_num_builder_id)
  /\ <<last_call.vid, last_call.view>> \in DOMAIN spawned_builder_states
  /\ highest_view_num_builder_id \in DOMAIN spawned_builder_states
  /\ BootstrapId \notin DOMAIN spawned_builder_states
  /\ spawned_builder_states[highest_view_num_builder_id] < last_call.id

\* C37: no call of the registry lowers last_garbage_collected_view_num.
C37_GcMonotone ==
  [][last_garbage_collected_view_num' >= last_garbage_collected_view_num]_vars

\* C38: for every entry of builder_state_to_last_built_block, under the key
\* (vid, view), block_hash_to_block has an entry under the builder hash of the
\* response and the same view; so claim_block, with a signature that
\* validates, for the block that the timeout path of available_blocks returns
\* for a key and for the view of that key finds the block.
C38_CacheConsistent ==
  /\ \A k \in DOMAIN builder_state_to_last_built_block :
       <<builder_state_to_last_built_block[k].builder_hash, ViewOf(k)>>
         \in DOMAIN block_hash_to_block
  /\ \A key \in DOMAIN builder_state_to_last_built_block :
       LET result == available_blocks_timeout_result(
                       builder_state_to_last_built_block, key)
       IN /\ result.kind = "ok"
          /\ claim_block_checks(TRUE, block_hash_to_block,
                                result.blocks[1].block_hash, ViewOf(key)).kind = "ok"

\* C38 witness: a state recorded a block, a later collect had its cutoff above
\* the view of that state, and the client's available_blocks call for the
\* key of the state, which no state handled, has returned the block from
\* the cache.
C38_Witness ==
  /\ gw.pc = "done"
  /\ gw.result.kind = "ok"
  /\ handled.sid = NoBuilderState
  /\ <<gw.parent, gw.view>> \in DOMAIN builder_state_to_last_built_block
  /\ <<gw.parent, gw.view>> \notin DOMAIN spawned_builder_states
  /\ gw.result.blocks[1].block_hash
       = builder_state_to_last_built_block[<<gw.parent, gw.view>>].builder_hash

\* the builder state that the suspended call of the gateway waits for
AwaitedState == spawned_builder_states[<<gw.parent, gw.view>>]

\* C39: in no state is the gateway suspended in the broadcast of a request
\* into a full channel, with the read guard on the global state held, while
\* the builder state that reads this channel waits for the write lock to
\* record a block it has built.
C39_NoLockDeadlock ==
  ~ (/\ lock_read_held
     /\ bs[AwaitedState].live
     /\ bs[AwaitedState].recording # <<>>)

\* the payload of the proposal from which a DA message was built
PayloadOfDa(msg) == msg.builder_commitment[2]

\* C40: the transaction commitments of every DA message on the bus are those
\* of the transactions of its proposal that pass the ingress filter of the
\* builder: the transactions of the configured namespace, or all of them when
\* no namespace is configured.
C40_DaCommitmentsFiltered ==
  \A k \in 1 .. Len(da_bus) :
    da_bus[k].txn_commitments
      = SeqToSet(handle_received_txns_filter(PayloadOfDa(da_bus[k]), namespace_id))

ForkCalls == {c \in calls : c.view = 3 /\ c.parent \in ForkParents}

\* C19 (S5): once the DA and the quorum proposal of both branches of view 3
\* were delivered, the registry holds a builder state at view 3 for each of the
\* two parents, and the calls of available_blocks for the two parents at
\* view 3 succeed, with distinct builder commitments.
C19_ForkBothBranches ==
  ForksDelivered =>
    /\ \A parent \in ForkParents :
         <<parent, 3>> \in DOMAIN spawned_builder_states
    /\ Cardinality({k \in DOMAIN spawned_builder_states : ViewOf(k) = 3}) = 2
    /\ \A c \in ForkCalls : c.result.kind = "ok"
    /\ \A c, d \in ForkCalls :
         c.parent # d.parent =>
           c.result.blocks[1].block_hash # d.result.blocks[1].block_hash
=============================================================================
